---- MODULE Spec2Model ----
(***************************************************************************)
(* Event analytics platform: the ingestion pipeline (POST /events, the     *)
(* per-tenant buffers, the sweeper, the shutdown flush, the queue worker)  *)
(* and the analytics query engine (funnel, retention, metrics, user        *)
(* journey, event summary) behind its read-through cache.                  *)
(*                                                                         *)
(* Strings whose characters matter (ids, names, keys) are sequences of     *)
(* one-token strings, so that the joins and splits of the code are real    *)
(* concatenations.  sha256 is taken to be injective: a fingerprint is the  *)
(* string that is hashed.                                                  *)
(***************************************************************************)
EXTENDS Integers, Sequences, FiniteSets, Bags, TLC

\* ------------------------------------------------------------------ bounds
\* HTTP ingestion requests started in one behaviour.
MaxRequests == 3
\* EVENT_BATCH_SIZE, scaled down from its default of 1000.
maxBatchSize == 2
\* The receipt time new Date() yields, in model time units.
Now == 3
\* attempts of a process-batch job.
JobAttempts == 3

\* ------------------------------------------------------------- the universe
OrgA == <<"a">>
OrgB == <<"b">>
ProjP == <<"p">>
Absent == <<>>


NoTimestamp == [tag |-> "none", ms |-> 0]
IsoTime(ms) == [tag |-> "iso", ms |-> ms]
DateTime(ms) == [tag |-> "date", ms |-> ms]

\* Bodies a client posts: all pass eventSchema; orgId / projectId are the
\* client's own, optional, values.
PlainA == [userId |-> <<"u">>, eventName |-> <<"A">>, timestamp |-> IsoTime(1),
           orgId |-> Absent, projectId |-> Absent]
SpoofA == [PlainA EXCEPT !.orgId = OrgB, !.projectId = ProjP]
PlainB == [userId |-> <<"u">>, eventName |-> <<"B">>, timestamp |-> NoTimestamp,
           orgId |-> Absent, projectId |-> Absent]
TenantA == [orgId |-> OrgA, projectId |-> ProjP]
TenantB == [orgId |-> OrgB, projectId |-> ProjP]
\* req.user of the two API keys of the model: (orgId, projectId).
Tenants == {TenantA, TenantB}

\* The single-event requests of the model: who posts what.
SingleInputs ==
  { [user |-> TenantA, body |-> SpoofA], [user |-> TenantA, body |-> PlainB],
    [user |-> TenantB, body |-> PlainA] }

\* The batch requests of the model (arrays of 1..1000 events in the code).
BatchInputs ==
  { [user |-> TenantA, bodies |-> <<SpoofA, PlainA>>],
    [user |-> TenantA, bodies |-> <<PlainB, PlainA>>] }

Slots == {"h1", "h2"}
Worker == "w"
Procs == Slots \cup {Worker}

\* ------------------------------------------------------------ string helpers
RECURSIVE Join(_, _)
Join(parts, sep) ==
  IF parts = <<>> THEN <<>>
  ELSE IF Len(parts) = 1 THEN Head(parts)
  ELSE Head(parts) \o <<sep>> \o Join(Tail(parts), sep)

RECURSIVE Split(_, _)
\* String.prototype.split(sep): the segments between the separators.
Split(s, sep) ==
  IF \A i \in 1..Len(s) : s[i] # sep THEN <<s>>
  ELSE LET i == CHOOSE j \in 1..Len(s) :
                  s[j] = sep /\ \A k \in 1..(j - 1) : s[k] # sep
       IN <<SubSeq(s, 1, i - 1)>> \o Split(SubSeq(s, i + 1, Len(s)), sep)

RECURSIVE SeqToBag(_)
SeqToBag(s) ==
  IF s = <<>> THEN EmptyBag ELSE SetToBag({Head(s)}) (+) SeqToBag(Tail(s))

\* ------------------------------------------------------------ the Map buffer
\* eventBuffer is a Map: a sequence of [key, events] in insertion order.
MapHas(m, k) == \E i \in 1..Len(m) : m[i].key = k
MapIndex(m, k) == CHOOSE i \in 1..Len(m) : m[i].key = k
MapGet(m, k) == m[MapIndex(m, k)].events
MapSet(m, k, v) ==
  IF MapHas(m, k) THEN [m EXCEPT ![MapIndex(m, k)].events = v]
  ELSE Append(m, [key |-> k, events |-> v])

\* ------------------------------------------------------- pure pipeline steps
\* requireOrgAccess / requireProjectAccess: fill the body's ids when absent.
RequireAccess(body, user) ==
  [body EXCEPT !.orgId = IF @ = Absent THEN user.orgId ELSE @,
               !.projectId = IF @ = Absent THEN user.projectId ELSE @]

HandlerEventBodyWins(body, user) == RequireAccess(body, user)

\* POST /events handler: { ...event, orgId, projectId } with req.user's ids.
HandlerEvent(body, user) ==
  [RequireAccess(body, user) EXCEPT !.orgId = user.orgId,
                                    !.projectId = user.projectId]

\* validateEvent: the four required fields are truthy.
ValidEvent(e) ==
  /\ e.userId # Absent /\ e.eventName # Absent
  /\ e.orgId # Absent /\ e.projectId # Absent

\* validateEvent: the timestamp becomes a Date; receipt time when missing.
validateEvent(e) ==
  [e EXCEPT !.timestamp = IF @.tag = "none" THEN DateTime(Now)
                          ELSE DateTime(@.ms)]

generateEventId(e) ==
  Join(<<e.userId, e.eventName, <<ToString(e.timestamp.ms)>>,
         e.orgId, e.projectId>>, "-")

DedupKey(eventId, orgId, projectId) ==
  Join(<<(<<"event">>), orgId, projectId, eventId>>, ":")

BufferKey(orgId, projectId) == Join(<<orgId, projectId>>, ":")

\* const [orgId, projectId] = bufferKey.split(':')
KeyOrg(bufferKey) == Split(bufferKey, ":")[1]
KeyProject(bufferKey) ==
  LET parts == Split(bufferKey, ":")
  IN IF Len(parts) >= 2 THEN parts[2] ELSE Absent

\* Bull stores job.data as JSON: a Date becomes its ISO string.
JsonEvent(e) == [e EXCEPT !.timestamp = IsoTime(@.ms)]
JsonEvents(events) == [i \in 1..Len(events) |-> JsonEvent(events[i])]

CounterKey(orgId, projectId) ==
  Join(<<(<<"events">>), orgId, projectId, <<"count">>>>, ":")
TypeCounterKey(orgId, projectId, eventName) ==
  Join(<<(<<"events">>), orgId, projectId, eventName, <<"count">>>>, ":")

\* ------------------------------------------------------------------- state
VARIABLES
  eventBuffer,  \* the Map of tenant buffers
  dedup,        \* Redis: the dedup marker keys
  counters,     \* Redis: the events:...:count counters (a bag of keys)
  store,        \* the events collection (a bag of documents)
  emitted,      \* the new_event notifications sent (a bag of events)
  queue,        \* Bull: the waiting process-batch jobs
  adds,         \* addEventBatchToQueue calls not yet resolved, in call order
  procs,        \* the HTTP requests in flight and the queue worker
  flush,        \* flushBuffers: its position in the Map
  resp,         \* the last response of POST /events
  nreq,         \* requests started
  submitted,    \* history: the valid events handed to the pipeline by HTTP
  buffered,     \* history: the events pushed to a tenant buffer
  handed,       \* history: the events passed to addEventBatchToQueue
  posted,       \* history: the requests made, as [user, bodies]
  funnels,      \* the funnels collection: funnelId -> document
  cache,        \* Redis: the query cache, key -> [value, ttl]
  calls,        \* history: the last two analytics calls
  quiet,        \* history: no write and no expiry since the last call
  nq,           \* analytics calls made
  apiKeys,      \* the api_keys collection: _id -> document
  hits,         \* the rate-limit store: limiter key -> requests in the window
  reply,        \* the last answer of a middleware chain or an admin route
  saves,        \* POST and PUT /funnels requests between their read and save
  exited,       \* process.exit was called
  revoked       \* history: the key strings deleted or deactivated so far

\* What the analytics engine adds to the state, and what only ingestion
\* reads or writes.
analytics == <<funnels, cache, calls, quiet, nq>>
pipeline == <<eventBuffer, dedup, counters, emitted, queue, adds, procs,
              flush, resp, nreq, submitted, buffered, handed, posted>>
\* What the middleware chains write, and the rest of the HTTP service.
tenancy == <<apiKeys, hits>>
server == <<reply, saves, exited, revoked>>

vars == <<eventBuffer, dedup, counters, store, emitted, queue, adds, procs,
          flush, resp, nreq, submitted, buffered, handed, posted, funnels,
          cache, calls, quiet, nq, apiKeys, hits, reply, saves, exited,
          revoked>>

Idle == [kind |-> "idle", pc |-> "idle", events |-> <<>>, orgId |-> Absent,
         projectId |-> Absent, i |-> 0, valid |-> <<>>, dups |-> 0,
         attempts |-> 0]

NoResp == [kind |-> "none", status |-> 0, processed |-> 0, duplicates |-> 0,
           found |-> 0, skipped |-> 0]

\* The funnels of the model: F1 of tenant A, F2 of tenant B.  steps holds
\* the eventName of each step and timeWindow its timeWindow, in model time
\* units (0, the default, is no restriction): F1 wants its second step
\* within one unit of the first.
FunnelF1 == [name |-> <<"f1">>, orgId |-> OrgA, projectId |-> ProjP,
             steps |-> <<(<<"A">>), (<<"B">>)>>, timeWindow |-> <<0, 1>>]
FunnelF2 == [name |-> <<"f2">>, orgId |-> OrgB, projectId |-> ProjP,
             steps |-> <<(<<"A">>), (<<"B">>)>>, timeWindow |-> <<0, 0>>]
InitFunnels == [id \in {"F1", "F2"} |-> IF id = "F1" THEN FunnelF1 ELSE FunnelF2]

\* No entry in the query cache.
EmptyCache == [k \in {} |-> 0]

InitAnalytics ==
  /\ funnels = InitFunnels
  /\ cache = EmptyCache
  /\ calls = <<>>
  /\ quiet = TRUE
  /\ nq = 0

InitPipeline ==
  /\ eventBuffer = <<>>
  /\ dedup = {}
  /\ counters = EmptyBag
  /\ emitted = EmptyBag
  /\ queue = <<>>
  /\ adds = <<>>
  /\ procs = [p \in Procs |-> Idle]
  /\ flush = [pc |-> "idle", idx |-> 0]
  /\ resp = NoResp
  /\ nreq = 0
  /\ submitted = EmptyBag
  /\ buffered = EmptyBag
  /\ handed = EmptyBag
  /\ posted = {}

\* The api_keys collection of the model: a write key of each tenant and an
\* admin key of organisation a.
ApiKeyDoc(key, org, permissions) ==
  [key |-> key, name |-> key, orgId |-> org, projectId |-> ProjP,
   permissions |-> permissions, isActive |-> TRUE, lastUsed |-> 0]
InitKeys ==
  [id \in {"K1", "K2", "K3"} |->
     CASE id = "K1" -> ApiKeyDoc(<<"k1">>, OrgA, {"read", "write"})
       [] id = "K2" -> ApiKeyDoc(<<"k2">>, OrgB, {"read", "write"})
       [] id = "K3" -> ApiKeyDoc(<<"k3">>, OrgA, {"admin"})]

\* No answer yet.
NoReply == [route |-> "none", by |-> "none", status |-> 0, key |-> Absent,
            request |-> <<>>, fields |-> {}]

InitService ==
  /\ apiKeys = InitKeys
  /\ hits = [k \in {} |-> 0]
  /\ reply = NoReply
  /\ saves = {}
  /\ exited = FALSE
  /\ revoked = {}

Init ==
  /\ InitPipeline
  /\ store = EmptyBag
  /\ InitAnalytics
  /\ InitService


\* ------------------------------------------------------------ environment
\* What a call to a service ("redis", "mongo", "queue") can answer: TRUE
\* when it succeeds; a service named in faults may also throw.
Outcomes(faults, service) == IF service \in faults THEN BOOLEAN ELSE {TRUE}

\* A new request is served by the first free slot.
FreeSlot(p) ==
  /\ procs[p] = Idle
  /\ p = IF procs["h1"] = Idle THEN "h1" ELSE "h2"

\* ------------------------------------------------- POST /events, single form
NewProc(kind, events, user) ==
  [Idle EXCEPT !.kind = kind, !.events = events, !.orgId = user.orgId,
               !.projectId = user.projectId, !.i = 1]

\* res.status(..).json({processed, duplicates}); found and skipped are
\* history: the validEvents and duplicates processEventBatch counted.
Response(kind, status, processed, run) ==
  [kind |-> kind, status |-> status, processed |-> processed,
   duplicates |-> 0, found |-> Len(run.valid), skipped |-> run.dups]

AddCall(events, bufferKey, owner) ==
  [events |-> JsonEvents(events), orgId |-> KeyOrg(bufferKey),
   projectId |-> KeyProject(bufferKey), owner |-> owner]

\* processEvent: if (buffer.length >= maxBatchSize)
BufferFullLate(buffer) == Len(buffer) > maxBatchSize

BufferFull(buffer) == Len(buffer) >= maxBatchSize

\* processEvent after isDuplicate answered false: push, size check, and the
\* part of processBuffer that runs before its await.
BufferEvent(p, e, orgId, projectId) ==
  LET key == BufferKey(orgId, projectId)
      old == IF MapHas(eventBuffer, key) THEN MapGet(eventBuffer, key) ELSE <<>>
      buffer == Append(old, e)
      run == [Idle EXCEPT !.kind = "single", !.events = <<e>>,
                          !.orgId = orgId, !.projectId = projectId,
                          !.valid = <<e>>]
  IN IF BufferFull(buffer)
     THEN /\ eventBuffer' = MapSet(eventBuffer, key, <<>>)
          /\ adds' = Append(adds, AddCall(buffer, key, p))
          /\ handed' = handed (+) SeqToBag(buffer)
          /\ buffered' = buffered (+) SetToBag({e})
          /\ procs' = [procs EXCEPT ![p] = [run EXCEPT !.pc = "enqueue"]]
          /\ UNCHANGED <<emitted, resp>>
     ELSE /\ eventBuffer' = MapSet(eventBuffer, key, buffer)
          /\ emitted' = emitted (+) SetToBag({e})
          /\ resp' = Response("single", 200, 1, run)
          /\ procs' = [procs EXCEPT ![p] = Idle]
          /\ buffered' = buffered (+) SetToBag({e})
          /\ UNCHANGED <<adds, handed>>

\* The request arrives; processEvent validates, fingerprints and asks Redis
\* whether the marker exists (the first await of isDuplicate).
SingleIngest(p, user, body, faults) ==
  LET e == validateEvent(HandlerEvent(body, user))
      k == DedupKey(generateEventId(e), user.orgId, user.projectId)
  IN /\ nreq < MaxRequests
     /\ FreeSlot(p)
     /\ ValidEvent(HandlerEvent(body, user))
     /\ nreq' = nreq + 1
     /\ submitted' = submitted (+) SetToBag({e})
     /\ posted' = posted \cup {[user |-> user, bodies |-> <<body>>]}
     /\ \E redisOk \in Outcomes(faults, "redis") :
          IF ~redisOk
          THEN BufferEvent(p, e, user.orgId, user.projectId)
          ELSE IF k \in dedup
          THEN /\ resp' = Response("single", 200, 1, Idle)
               /\ UNCHANGED <<eventBuffer, adds, procs, emitted, buffered,
                              handed>>
          ELSE /\ procs' = [procs EXCEPT ![p] =
                              [NewProc("single", <<e>>, user) EXCEPT !.pc = "mark"]]
               /\ UNCHANGED <<eventBuffer, adds, emitted, resp, buffered,
                              handed>>
     /\ UNCHANGED <<dedup, counters, store, queue, flush>>
     /\ ~exited
     /\ UNCHANGED analytics
     /\ UNCHANGED server

\* redis.setEx of the marker, then the rest of processEvent.
SingleMark(p, faults) ==
  LET run == procs[p]
      e == run.events[1]
      k == DedupKey(generateEventId(e), run.orgId, run.projectId)
  IN /\ run.kind = "single" /\ run.pc = "mark"
     /\ \E redisOk \in Outcomes(faults, "redis") :
          dedup' = IF redisOk THEN dedup \cup {k} ELSE dedup
     /\ BufferEvent(p, e, run.orgId, run.projectId)
     /\ UNCHANGED <<counters, store, queue, flush, nreq, submitted, posted>>
     /\ ~exited
     /\ UNCHANGED analytics
     /\ UNCHANGED <<tenancy, server>>

\* ------------------------------------------------------- processEventBatch
\* The loop moves to the next event; after the last one the batch is
\* inserted, or the function returns when nothing is left to insert.
Advance(run) ==
  IF run.i < Len(run.events) THEN [run EXCEPT !.i = @ + 1, !.pc = "check"]
  ELSE IF run.valid = <<>> THEN [run EXCEPT !.pc = "return"]
  ELSE [run EXCEPT !.pc = "insert"]

\* The handler's answer to a batch: processed = events.length.
BatchResponse(run, status) ==
  Response("batch", status, IF status = 200 THEN Len(run.events) ELSE 0, run)

\* processEventBatch went on to run; when it returned, the handler answers
\* or the job completes.
Settle(p, run) ==
  IF run.pc = "return"
  THEN /\ procs' = [procs EXCEPT ![p] = Idle]
       /\ resp' = IF p = Worker THEN resp ELSE BatchResponse(run, 200)
  ELSE /\ procs' = [procs EXCEPT ![p] = run]
       /\ UNCHANGED resp

BatchIngest(p, user, bodies) ==
  LET events == [i \in 1..Len(bodies) |-> HandlerEvent(bodies[i], user)]
  IN /\ nreq < MaxRequests
     /\ FreeSlot(p)
     /\ nreq' = nreq + 1
     /\ submitted' = submitted (+)
          SeqToBag([i \in 1..Len(events) |-> validateEvent(events[i])])
     /\ posted' = posted \cup {[user |-> user, bodies |-> bodies]}
     /\ procs' = [procs EXCEPT ![p] =
                    [NewProc("batch", events, user) EXCEPT !.pc = "check"]]
     /\ UNCHANGED <<eventBuffer, dedup, counters, store, emitted, queue, adds,
                    flush, resp, buffered, handed>>
     /\ ~exited
     /\ UNCHANGED analytics
     /\ UNCHANGED server

\* validateEvent, generateEventId and redis.exists for events[i].
RunCheck(p, faults) ==
  LET run == procs[p]
      raw == run.events[run.i]
      e == validateEvent(raw)
      k == DedupKey(generateEventId(e), run.orgId, run.projectId)
  IN /\ run.kind \in {"batch", "job"} /\ run.pc = "check"
     /\ IF ~ValidEvent(raw)
        THEN Settle(p, Advance(run))
        ELSE \E redisOk \in Outcomes(faults, "redis") :
               IF ~redisOk
               THEN Settle(p, Advance([run EXCEPT !.valid = Append(@, e)]))
               ELSE IF k \in dedup
               THEN Settle(p, Advance([run EXCEPT !.dups = @ + 1]))
               ELSE Settle(p, [run EXCEPT !.pc = "mark"])
     /\ UNCHANGED <<eventBuffer, dedup, counters, store, emitted, queue, adds,
                    flush, nreq, submitted, buffered, handed, posted>>
     /\ ~exited
     /\ UNCHANGED analytics
     /\ UNCHANGED <<tenancy, server>>

\* redis.setEx for events[i]; isDuplicate answers false either way.
RunMark(p, faults) ==
  LET run == procs[p]
      e == validateEvent(run.events[run.i])
      k == DedupKey(generateEventId(e), run.orgId, run.projectId)
  IN /\ run.kind \in {"batch", "job"} /\ run.pc = "mark"
     /\ \E redisOk \in Outcomes(faults, "redis") :
          dedup' = IF redisOk THEN dedup \cup {k} ELSE dedup
     /\ Settle(p, Advance([run EXCEPT !.valid = Append(@, e)]))
     /\ UNCHANGED <<eventBuffer, counters, store, emitted, queue, adds, flush,
                    nreq, submitted, buffered, handed, posted>>
     /\ ~exited
     /\ UNCHANGED analytics
     /\ UNCHANGED <<tenancy, server>>

RECURSIVE TypeCounts(_, _, _)
\* One INCR of events:{org}:{proj}:{eventName}:count per event.
TypeCounts(events, orgId, projectId) ==
  IF events = <<>> THEN EmptyBag
  ELSE SetToBag({TypeCounterKey(orgId, projectId, Head(events).eventName)})
       (+) TypeCounts(Tail(events), orgId, projectId)

updateEventCacheOnePerBatch(events, orgId, projectId, ok) ==
  IF ok = 0 THEN counters
  ELSE counters
       (+) [k \in {CounterKey(orgId, projectId)} |-> 1]
       (+) TypeCounts(SubSeq(events, 1, ok - 1), orgId, projectId)

\* updateEventCache: INCRBY of the total, then one INCR per event; the
\* first Redis error ends it (caught and logged).  ok is the number of
\* Redis calls that succeeded.
updateEventCache(events, orgId, projectId, ok) ==
  IF ok = 0 THEN counters
  ELSE counters
       (+) [k \in {CounterKey(orgId, projectId)} |-> Len(events)]
       (+) TypeCounts(SubSeq(events, 1, ok - 1), orgId, projectId)

\* A failed attempt goes back to the queue until its attempts are used up.
Retry(run) ==
  IF run.attempts + 1 < JobAttempts
  THEN Append(queue, [events |-> run.events, orgId |-> run.orgId,
                      projectId |-> run.projectId,
                      attempts |-> run.attempts + 1])
  ELSE queue

\* Event.insertMany(validEvents), updateEventCache, the emits and the return
\* of processEventBatch; when insertMany throws, the request or the attempt
\* fails.
RunInsert(p, faults) ==
  LET run == procs[p]
  IN /\ run.kind \in {"batch", "job"} /\ run.pc = "insert"
     /\ \E storeOk \in Outcomes(faults, "mongo") :
          IF storeOk
          THEN /\ store' = store (+) SeqToBag(run.valid)
               /\ \E ok \in IF "redis" \in faults
                                THEN 0..(Len(run.valid) + 1)
                                ELSE {Len(run.valid) + 1} :
                    counters' = updateEventCache(run.valid, run.orgId,
                                                 run.projectId, ok)
               /\ emitted' = emitted (+) SeqToBag(run.valid)
               /\ Settle(p, [run EXCEPT !.pc = "return"])
               /\ UNCHANGED queue
          ELSE /\ procs' = [procs EXCEPT ![p] = Idle]
               /\ queue' = IF p = Worker THEN Retry(run) ELSE queue
               /\ resp' = IF p = Worker THEN resp ELSE BatchResponse(run, 500)
               /\ UNCHANGED <<store, counters, emitted>>
     /\ UNCHANGED <<eventBuffer, dedup, adds, flush, nreq, submitted, buffered,
                    handed, posted>>
     /\ ~exited
     /\ UNCHANGED analytics
     /\ UNCHANGED <<tenancy, server>>

\* ------------------------------------------- buffers, sweeper, queue, worker
NonEmpty(entry) == entry.events # <<>>

\* setInterval: processBuffer(key) for every key; each call detaches its
\* buffer and starts addEventBatchToQueue before the next one runs.
RECURSIVE BufferedEvents(_)
\* The events of every buffer of the Map, as a bag.
BufferedEvents(m) ==
  IF m = <<>> THEN EmptyBag
  ELSE SeqToBag(Head(m).events) (+) BufferedEvents(Tail(m))

SweepCalls(m) ==
  LET full == SelectSeq(m, NonEmpty)
  IN [i \in 1..Len(full) |-> AddCall(full[i].events, full[i].key, "sweeper")]

SweeperTick ==
  /\ \E i \in 1..Len(eventBuffer) : NonEmpty(eventBuffer[i])
  /\ adds' = adds \o SweepCalls(eventBuffer)
  /\ handed' = handed (+) BufferedEvents(eventBuffer)
  /\ eventBuffer' = [i \in 1..Len(eventBuffer) |->
                       [eventBuffer[i] EXCEPT !.events = <<>>]]
  /\ UNCHANGED <<dedup, counters, store, emitted, queue, procs, flush, resp,
                 nreq, submitted, buffered, posted>>
  /\ ~exited
  /\ UNCHANGED analytics
  /\ UNCHANGED <<tenancy, server>>

\* flushBuffers walks the live Map: the next entry after idx that holds
\* events, 0 when the walk is over.
NextFull(m, idx) ==
  IF \E j \in (idx + 1)..Len(m) : NonEmpty(m[j])
  THEN CHOOSE j \in (idx + 1)..Len(m) :
         NonEmpty(m[j]) /\ \A k \in (idx + 1)..(j - 1) : ~NonEmpty(m[k])
  ELSE 0

\* flushBuffers from position idx up to its next await, or to its end
\* (eventBuffer.clear()).  pending is the calls already waiting.
FlushFrom(m, idx, pending) ==
  LET j == NextFull(m, idx)
  IN IF j = 0
     THEN /\ eventBuffer' = <<>>
          /\ adds' = pending
          /\ flush' = [pc |-> "done", idx |-> 0]
          /\ UNCHANGED handed
     ELSE /\ eventBuffer' = m
          /\ adds' = Append(pending, AddCall(m[j].events, m[j].key, "flush"))
          /\ flush' = [pc |-> "wait", idx |-> j]
          /\ handed' = handed (+) SeqToBag(m[j].events)

\* SIGTERM / SIGINT: flushBuffers starts.
Shutdown ==
  /\ flush.pc = "idle"
  /\ FlushFrom(eventBuffer, 0, adds)
  /\ UNCHANGED <<dedup, counters, store, emitted, queue, procs, resp, nreq,
                 submitted, buffered, posted>>
  /\ ~exited
  /\ UNCHANGED analytics
  /\ UNCHANGED <<tenancy, server>>

Job(call) ==
  [events |-> call.events, orgId |-> call.orgId, projectId |-> call.projectId,
   attempts |-> 0]

\* The oldest addEventBatchToQueue call resolves: the job is in the queue,
\* or the call throws (queue not initialised, broker error).
AddResolve(faults) ==
  /\ adds # <<>>
  /\ LET call == Head(adds)
         owner == call.owner
     IN \E queueOk \in Outcomes(faults, "queue") :
          /\ queue' = IF queueOk THEN Append(queue, Job(call)) ELSE queue
          /\ IF owner = "flush"
             THEN /\ IF queueOk
                     THEN FlushFrom(eventBuffer, flush.idx, Tail(adds))
                     ELSE /\ flush' = [pc |-> "failed", idx |-> 0]
                          /\ adds' = Tail(adds)
                          /\ UNCHANGED <<eventBuffer, handed>>
                  /\ UNCHANGED <<procs, emitted, resp>>
             ELSE IF owner = "sweeper"
             THEN /\ adds' = Tail(adds)
                  /\ UNCHANGED <<eventBuffer, flush, procs, emitted, resp,
                                 handed>>
             ELSE /\ adds' = Tail(adds)
                  /\ procs' = [procs EXCEPT ![owner] = Idle]
                  /\ emitted' = IF queueOk
                                THEN emitted (+) SeqToBag(procs[owner].valid)
                                ELSE emitted
                  /\ resp' = Response("single", IF queueOk THEN 200 ELSE 500,
                                      IF queueOk THEN 1 ELSE 0, procs[owner])
                  /\ UNCHANGED <<eventBuffer, flush, handed>>
  /\ UNCHANGED <<dedup, counters, store, nreq, submitted, buffered, posted>>
  /\ ~exited
  /\ UNCHANGED analytics
  /\ UNCHANGED <<tenancy, server>>

\* eventQueue.process('process-batch'): the worker takes the oldest job.
WorkerTake ==
  /\ queue # <<>>
  /\ procs[Worker] = Idle
  /\ LET job == Head(queue)
     IN procs' = [procs EXCEPT ![Worker] =
                    [Idle EXCEPT !.kind = "job", !.pc = "check",
                                 !.events = job.events, !.orgId = job.orgId,
                                 !.projectId = job.projectId, !.i = 1,
                                 !.attempts = job.attempts]]
  /\ queue' = Tail(queue)
  /\ UNCHANGED <<eventBuffer, dedup, counters, store, emitted, adds, flush,
                 resp, nreq, submitted, buffered, handed, posted>>
  /\ ~exited
  /\ UNCHANGED analytics
  /\ UNCHANGED <<tenancy, server>>

\* ------------------------------------------------- the POST /events route
\* max of eventIngestionLimiter, scaled down from its 10.
IngestionMax == 2
\* The array bound of batchSchema, scaled down from its 1000.
BatchLimit == 2
\* max of adminLimiter.
AdminMax == 200

\* errorHandler: the status an error passed to next() is answered with.
errorHandler(error) ==
  CASE error = "AuthenticationError" -> 401
    [] error = "AuthorizationError" -> 403
    [] OTHER -> 500

\* ApiKey.findByKey: findOne({ key, isActive: true }); key is unique.
findByKey(keys, key) ==
  {id \in DOMAIN keys : keys[id].key = key /\ keys[id].isActive}

authenticateApiKeyAnyState(keys, header) ==
  LET found == {id \in DOMAIN keys : keys[id].key = header}
      id == CHOOSE k \in found : TRUE
  IN IF header = Absent \/ found = {}
     THEN [error |-> "AuthenticationError", keys |-> keys, id |-> "",
           user |-> [orgId |-> Absent, projectId |-> Absent]]
     ELSE [error |-> "none", keys |-> [keys EXCEPT ![id].lastUsed = Now],
           id |-> id,
           user |-> [orgId |-> keys[id].orgId,
                     projectId |-> keys[id].projectId]]

\* authenticateApiKey: the error passed to next() ("none" when the request
\* goes on), the collection after updateLastUsed, and req.user.
authenticateApiKey(keys, header) ==
  LET found == findByKey(keys, header)
      id == CHOOSE k \in found : TRUE
  IN IF header = Absent \/ found = {} \/ ~keys[id].isActive
     THEN [error |-> "AuthenticationError", keys |-> keys, id |-> "",
           user |-> [orgId |-> Absent, projectId |-> Absent]]
     ELSE [error |-> "none", keys |-> [keys EXCEPT ![id].lastUsed = Now],
           id |-> id,
           user |-> [orgId |-> keys[id].orgId,
                     projectId |-> keys[id].projectId]]

\* eventSchema.validate(value) finds no error.
eventSchema(body) ==
  /\ body.userId # Absent /\ body.eventName # Absent
  /\ body.timestamp.tag # "bad"

batchSchemaOneMore(bodies) ==
  /\ Len(bodies) >= 1 /\ Len(bodies) <= BatchLimit + 1
  /\ \A i \in 1..Len(bodies) : eventSchema(bodies[i])

\* batchSchema.validate({ events: value }) finds no error.
batchSchema(bodies) ==
  /\ Len(bodies) >= 1 /\ Len(bodies) <= BatchLimit
  /\ \A i \in 1..Len(bodies) : eventSchema(bodies[i])

\* The limiter's counter of a key after one more request.
Increment(counts, bucket) ==
  [k \in DOMAIN counts \cup {bucket} |->
     IF k \in DOMAIN counts
     THEN (IF k = bucket THEN counts[k] + 1 ELSE counts[k])
     ELSE 1]

\* The middleware named by answers and the handler does not run.
Refuse(route, by, in, status, fields) ==
  /\ reply' = [route |-> route, by |-> by, status |-> status, key |-> in.key,
               request |-> in.bodies, fields |-> fields]
  /\ UNCHANGED <<saves, exited, revoked>>

\* POST /events: authenticateApiKey, requireOrgAccess, requireProjectAccess,
\* eventIngestionLimiter, the body validator, then the handler up to its
\* first await.
PostEvents(p, in) ==
  LET auth == authenticateApiKey(apiKeys, in.key)
      bucket == <<"event_ingestion", ":">> \o in.key
      valid == IF in.array THEN batchSchema(in.bodies)
               ELSE eventSchema(in.bodies[1])
      Stop(by, status, fields) ==
        /\ nreq < MaxRequests
        /\ nreq' = nreq + 1
        /\ Refuse("events", by, in, status, fields)
        /\ UNCHANGED <<eventBuffer, dedup, counters, store, emitted, queue,
                       adds, procs, flush, resp, submitted, buffered, handed,
                       posted>>
        /\ UNCHANGED analytics
  IN /\ ~exited
     /\ IF auth.error # "none"
        THEN /\ Stop("authenticateApiKey", errorHandler(auth.error),
                     {"success", "error"})
             /\ UNCHANGED tenancy
        ELSE /\ apiKeys' = auth.keys
             /\ hits' = Increment(hits, bucket)
             /\ IF hits'[bucket] > IngestionMax
                THEN Stop("eventIngestionLimiter", 429, {"success", "error"})
                ELSE IF ~valid
                THEN Stop("validator", 400, {"success", "error", "details"})
                ELSE IF in.array
                THEN BatchIngest(p, auth.user, in.bodies)
                ELSE SingleIngest(p, auth.user, in.bodies[1], {})

\* The window of a limiter key ends: its counter is gone.
WindowEnd(bucket) ==
  /\ bucket \in DOMAIN hits
  /\ hits' = [k \in DOMAIN hits \ {bucket} |-> hits[k]]
  /\ UNCHANGED <<apiKeys, server, store>>
  /\ UNCHANGED <<pipeline, analytics>>

\* The requests made to POST /events, as [key, array, bodies]: single
\* events of both tenants and of an unknown key, and arrays that are empty,
\* hold an event without userId or with an unparseable timestamp, are as
\* long as the bound allows, or one longer.
GateInputs ==
  LET NoUser == [PlainA EXCEPT !.userId = Absent]
      BadTime == [PlainB EXCEPT !.timestamp = [tag |-> "bad", ms |-> 0]]
      Request(key, array, bodies) ==
        [key |-> key, array |-> array, bodies |-> bodies]
  IN { Request(<<"k1">>, FALSE, <<PlainB>>),
       Request(<<"k2">>, FALSE, <<PlainA>>),
       Request(<<"zz">>, FALSE, <<PlainA>>),
       Request(<<"k1">>, TRUE, <<>>),
       Request(<<"k1">>, TRUE, <<PlainA, NoUser>>),
       Request(<<"k1">>, TRUE, <<BadTime>>),
       Request(<<"k1">>, TRUE, [i \in 1..BatchLimit |-> PlainA]),
       Request(<<"k1">>, TRUE, [i \in 1..(BatchLimit + 1) |-> PlainA]) }

\* ------------------------------------------------------ the /auth routes
hasPermissionOrWrite(doc, permission) ==
  permission \in doc.permissions \/ "write" \in doc.permissions

\* ApiKeySchema.methods.hasPermission
hasPermission(doc, permission) ==
  permission \in doc.permissions \/ "admin" \in doc.permissions

\* requirePermission(permission): the error passed to next(), "none" when
\* the request goes on.
requirePermission(keys, header, permission) ==
  LET found == findByKey(keys, header)
  IN IF header = Absent \/ found = {} THEN "AuthenticationError"
     ELSE IF ~hasPermission(keys[CHOOSE k \in found : TRUE], permission)
     THEN "AuthorizationError"
     ELSE "none"

\* What an /auth request leaves alone.
AuthFrame ==
  /\ UNCHANGED <<eventBuffer, dedup, counters, store, emitted, queue, adds,
                 procs, flush, resp, submitted, buffered, handed, posted>>
  /\ UNCHANGED <<saves, exited>>
  /\ UNCHANGED analytics

\* POST, GET, PUT and DELETE on /auth/keys and /auth/keys/:keyId:
\* authenticateApiKey, requirePermission('admin'), adminLimiter on the
\* writing routes, then the handler.  "LIST" is GET /auth/keys.
AuthKeys(method, header, id, body) ==
  LET auth == authenticateApiKey(apiKeys, header)
      keys == auth.keys
      denied == IF auth.error # "none" THEN auth.error
                ELSE requirePermission(keys, header, "admin")
      limited == method \in {"POST", "PUT", "DELETE"}
      bucket == <<"admin", ":">> \o header
      orgId == auth.user.orgId
      \* ApiKey.findById(keyId) answers a key of the caller's organisation.
      found == id \in DOMAIN keys /\ keys[id].orgId = orgId
      \* ApiKey.findOne({ name, orgId, projectId: projectId || null })
      existing == \E k \in DOMAIN keys :
                    /\ keys[k].name = body.name /\ keys[k].orgId = orgId
                    /\ keys[k].projectId = Absent
      \* ApiKey.createApiKey: the document with a fresh random key.
      created == [key |-> <<"k4">>, name |-> body.name, orgId |-> orgId,
                  projectId |-> Absent, permissions |-> body.permissions,
                  isActive |-> TRUE, lastUsed |-> 0]
      \* Object.assign(apiKey, updates) on the paths of the schema.
      assigned == [f \in DOMAIN keys[id] |->
                     IF f \in DOMAIN body THEN body[f] ELSE keys[id][f]]
      \* apiKey.save() against the unique index on key.
      clash == \E k \in DOMAIN keys \ {id} : keys[k].key = assigned.key
      Answer(status, after, gone) ==
        /\ reply' = [route |-> "keys",
                     by |-> IF auth.error # "none" THEN "authenticateApiKey"
                            ELSE IF denied # "none" THEN "requirePermission"
                            ELSE IF status = 429 THEN "adminLimiter"
                            ELSE "handler",
                     status |-> status, key |-> header,
                     request |-> <<method, id>>, fields |-> {}]
        /\ apiKeys' = after
        /\ revoked' = revoked \cup gone
  IN /\ nreq < MaxRequests
     /\ nreq' = nreq + 1
     /\ IF denied # "none"
        THEN Answer(errorHandler(denied), keys, {}) /\ UNCHANGED hits
        ELSE /\ hits' = IF limited THEN Increment(hits, bucket) ELSE hits
             /\ IF limited /\ hits'[bucket] > AdminMax
                THEN Answer(429, keys, {})
                ELSE CASE method = "POST" ->
                            IF existing THEN Answer(409, keys, {})
                            ELSE Answer(201,
                                   [k \in DOMAIN keys \cup {"K4"} |->
                                      IF k = "K4" THEN created ELSE keys[k]],
                                   {})
                       [] method = "LIST" -> Answer(200, keys, {})
                       [] method = "GET" ->
                            Answer(IF found THEN 200 ELSE 404, keys, {})
                       [] method = "PUT" ->
                            IF ~found THEN Answer(404, keys, {})
                            ELSE IF clash THEN Answer(500, keys, {})
                            ELSE Answer(200, [keys EXCEPT ![id] = assigned],
                                        IF keys[id].isActive
                                           /\ ~assigned.isActive
                                        THEN {keys[id].key} ELSE {})
                       [] method = "DELETE" ->
                            IF ~found THEN Answer(404, keys, {})
                            ELSE Answer(200,
                                   [k \in DOMAIN keys \ {id} |-> keys[k]],
                                   {keys[id].key})
     /\ AuthFrame

\* POST /auth/validate: authenticateApiKey, then the handler's own findByKey.
Validate(header) ==
  LET auth == authenticateApiKey(apiKeys, header)
  IN /\ nreq < MaxRequests
     /\ nreq' = nreq + 1
     /\ apiKeys' = auth.keys
     /\ reply' = [route |-> "validate",
                  by |-> IF auth.error # "none" THEN "authenticateApiKey"
                         ELSE "handler",
                  status |-> IF auth.error # "none"
                             THEN errorHandler(auth.error)
                             ELSE IF findByKey(auth.keys, header) = {}
                             THEN 401 ELSE 200,
                  key |-> header, request |-> <<>>, fields |-> {}]
     /\ UNCHANGED <<hits, revoked>>
     /\ AuthFrame

\* The headers presented: the write key and the admin key of organisation
\* a, and a string that is no key.
KeyHeaders == {<<"k1">>, <<"k3">>, <<"zz">>}

\* The bodies of PUT /auth/keys/:keyId: every one passes the route's
\* validators, which look at name, permissions and isActive only.
PutBodies ==
  { [isActive |-> FALSE], [isActive |-> TRUE], [name |-> <<"n">>],
    [permissions |-> {"admin"}], [key |-> <<"k1">>], [orgId |-> OrgB],
    [projectId |-> <<"q">>] }

\* The /auth routes alone.
NextKeys ==
  \/ \E h \in KeyHeaders :
       AuthKeys("POST", h, "", [name |-> <<"n">>, permissions |-> {"read"}])
  \/ \E h \in KeyHeaders : AuthKeys("LIST", h, "", <<>>)
  \/ \E h \in KeyHeaders, id \in {"K1", "K2"} : AuthKeys("GET", h, id, <<>>)
  \/ \E h \in KeyHeaders, id \in {"K1", "K2", "K3"}, body \in PutBodies :
       AuthKeys("PUT", h, id, body)
  \/ \E h \in KeyHeaders, id \in {"K1", "K2"} : AuthKeys("DELETE", h, id, <<>>)
  \/ \E h \in KeyHeaders : Validate(h)
SpecKeys == Init /\ [][NextKeys]_vars

\* --------------------------------------------------- the /funnels routes
\* max of isArray({ min: 2, max: 10 }) on steps, scaled down from its 10.
StepsMax == 3

\* A step of a funnel is its eventName; filters and timeWindow are not
\* written by the bodies of the model.
FunnelValidNoHook(doc, modified) ==
  /\ "name" \in modified => doc.name # Absent
  /\ "steps" \in modified =>
       /\ Len(doc.steps) >= 2
       /\ \A i \in 1..Len(doc.steps) : doc.steps[i] # Absent

\* funnel.save(): the schema's validators on the modified paths (name
\* required, steps.length >= 2, eventName required), then the pre('save')
\* hook on the steps of the document.
FunnelValid(doc, modified) ==
  /\ "name" \in modified => doc.name # Absent
  /\ "steps" \in modified =>
       /\ Len(doc.steps) >= 2
       /\ \A i \in 1..Len(doc.steps) : doc.steps[i] # Absent
  /\ Cardinality({doc.steps[i] : i \in 1..Len(doc.steps)}) = Len(doc.steps)

\* What a /funnels request leaves alone.
FunnelFrame ==
  /\ UNCHANGED <<eventBuffer, dedup, counters, store, emitted, queue, adds,
                 procs, flush, resp, submitted, buffered, handed, posted>>
  /\ UNCHANGED <<cache, calls, quiet, nq, hits, exited, revoked>>

\* POST /funnels and PUT /funnels/:funnelId up to the await of their read:
\* authenticateApiKey, requireOrgAccess and requireProjectAccess (which fill
\* orgId and projectId into a body that has none), the validators, then
\* Funnel.findByName (POST) or Funnel.findById and Object.assign (PUT).
FunnelArrive(method, header, id, body) ==
  LET auth == authenticateApiKey(apiKeys, header)
      user == auth.user
      has(f) == f \in DOMAIN body
      updates == [f \in DOMAIN body \cup {"orgId", "projectId"} |->
                    IF has(f) THEN body[f] ELSE user[f]]
      valid ==
        /\ method = "POST" => has("name") /\ has("steps")
        /\ has("name") => body.name # Absent
        /\ has("steps") =>
             /\ Len(body.steps) >= 2 /\ Len(body.steps) <= StepsMax
             /\ \A i \in 1..Len(body.steps) : body.steps[i] # Absent
      existing == \E f \in DOMAIN funnels :
                    /\ funnels[f].name = body.name
                    /\ funnels[f].orgId = user.orgId
                    /\ funnels[f].projectId = user.projectId
      found == /\ id \in DOMAIN funnels
               /\ funnels[id].orgId = user.orgId
               /\ funnels[id].projectId = user.projectId
      assigned == [f \in DOMAIN funnels[id] |->
                     IF f \in DOMAIN updates THEN updates[f]
                     ELSE funnels[id][f]]
      Answer(by, status) ==
        /\ reply' = [route |-> "funnels", by |-> by, status |-> status,
                     key |-> header, request |-> <<method, id>>,
                     fields |-> {}]
        /\ UNCHANGED saves
      Read(doc, modified) ==
        /\ saves' = saves \cup {[method |-> method, id |-> id, doc |-> doc,
                                 modified |-> modified, key |-> header,
                                 n |-> nreq]}
        /\ UNCHANGED reply
  IN /\ nreq < MaxRequests
     /\ nreq' = nreq + 1
     /\ apiKeys' = auth.keys
     /\ IF auth.error # "none"
        THEN Answer("authenticateApiKey", errorHandler(auth.error))
        ELSE IF user.orgId = Absent \/ user.projectId = Absent
        THEN Answer("requireProjectAccess",
                    errorHandler("AuthenticationError"))
        ELSE IF ~valid THEN Answer("validator", 400)
        ELSE IF method = "POST"
        THEN IF existing THEN Answer("handler", 409)
             ELSE Read([name |-> body.name, orgId |-> user.orgId,
                        projectId |-> user.projectId, steps |-> body.steps,
                        timeWindow |-> [i \in 1..Len(body.steps) |-> 0]],
                       {"name", "orgId", "projectId", "steps"})
        ELSE IF ~found THEN Answer("handler", 404)
        ELSE Read(assigned,
                  {f \in DOMAIN assigned : assigned[f] # funnels[id][f]})
     /\ UNCHANGED funnels
     /\ FunnelFrame

\* The ids MongoDB gives to new funnels, in the order of their creation.
NewFunnelIds == <<"F3", "F4", "F5", "F6", "F7">>

\* funnel.save() of a request that has read, and the answer.
FunnelSave(r) ==
  LET ok == FunnelValid(r.doc, r.modified)
      new == NewFunnelIds[Cardinality(DOMAIN funnels) - 1]
  IN /\ r \in saves
     /\ saves' = saves \ {r}
     /\ reply' = [route |-> "funnels", by |-> "handler",
                  status |-> IF ~ok THEN 500
                             ELSE IF r.method = "POST" THEN 201 ELSE 200,
                  key |-> r.key, request |-> <<r.method, r.id>>,
                  fields |-> {}]
     /\ funnels' =
          IF ~ok THEN funnels
          ELSE IF r.method = "POST"
          THEN [f \in DOMAIN funnels \cup {new} |->
                  IF f = new THEN r.doc ELSE funnels[f]]
          ELSE [funnels EXCEPT ![r.id] =
                  [f \in DOMAIN @ |->
                     IF f \in r.modified THEN r.doc[f] ELSE @[f]]]
     /\ UNCHANGED <<apiKeys, nreq>>
     /\ FunnelFrame

\* The bodies of the model: names f1 (taken by F1 of tenant a), g and h;
\* steps that are two, too few, repeated, as many as allowed, one more; and
\* a PUT body that names another organisation.
FunnelBodies ==
  LET AB == <<(<<"A">>), (<<"B">>)>>
      Long(n) == [i \in 1..n |-> <<ToString(i)>>]
  IN [post |-> { [name |-> <<"f1">>, steps |-> AB],
                 [name |-> <<"g">>, steps |-> AB],
                 [name |-> <<"h">>, steps |-> <<(<<"A">>)>>],
                 [name |-> <<"h">>, steps |-> <<(<<"A">>), (<<"A">>)>>],
                 [name |-> <<"h">>, steps |-> Long(StepsMax)],
                 [name |-> <<"h">>, steps |-> Long(StepsMax + 1)] },
      put |-> { [name |-> <<"g">>], [steps |-> <<(<<"B">>), (<<"A">>)>>],
                [steps |-> <<(<<"A">>)>>], [steps |-> <<(<<"B">>), (<<"B">>)>>],
                [steps |-> Long(StepsMax + 1)], [orgId |-> OrgB] }]

\* The /funnels routes that write, for the keys of both tenants.
NextFunnels ==
  \/ \E h \in {<<"k1">>, <<"k2">>, <<"zz">>}, body \in FunnelBodies.post :
       FunnelArrive("POST", h, "", body)
  \/ \E h \in {<<"k1">>}, id \in {"F1", "F2", "F3"}, body \in FunnelBodies.put :
       FunnelArrive("PUT", h, id, body)
  \/ \E r \in saves : FunnelSave(r)
SpecFunnels == Init /\ [][NextFunnels]_vars

\* --------------------------------------------------------- specifications
Steps(faults) ==
  \/ \E p \in Slots, in \in SingleInputs :
       SingleIngest(p, in.user, in.body, faults) /\ UNCHANGED tenancy
  \/ \E p \in Slots : SingleMark(p, faults)
  \/ \E p \in Slots, in \in BatchInputs :
       BatchIngest(p, in.user, in.bodies) /\ UNCHANGED tenancy
  \/ \E p \in Procs : RunCheck(p, faults)
  \/ \E p \in Procs : RunMark(p, faults)
  \/ \E p \in Procs : RunInsert(p, faults)
  \/ SweeperTick
  \/ Shutdown
  \/ AddResolve(faults)
  \/ WorkerTake

\* Redis, MongoDB and the broker always answer.
Next == Steps({})
Spec == Init /\ [][Next]_vars

\* server.close(() => process.exit(0)) of the server entry's SIGTERM and
\* SIGINT handlers: once the signal has come and no request is being
\* answered, the connections may all have ended and the process exits.
Exit ==
  /\ ~exited
  /\ flush.pc # "idle"
  /\ \A p \in Slots : procs[p] = Idle
  /\ exited' = TRUE
  /\ UNCHANGED <<reply, saves, revoked, store>>
  /\ UNCHANGED <<pipeline, analytics, tenancy>>

\* The ingestion pipeline with the exit of the process.
NextExit == Next \/ Exit
SpecExit == Init /\ [][NextExit]_vars

\* POST /events behind its middleware chain, with the sweeper and the worker.
NextGate ==
  \/ \E p \in Slots, in \in GateInputs : PostEvents(p, in)
  \/ \E b \in DOMAIN hits : WindowEnd(b)
  \/ \E p \in Slots : SingleMark(p, {})
  \/ \E p \in Procs : RunCheck(p, {})
  \/ \E p \in Procs : RunMark(p, {})
  \/ \E p \in Procs : RunInsert(p, {})
  \/ SweeperTick
  \/ AddResolve({})
  \/ WorkerTake
SpecGate == Init /\ [][NextGate]_vars

\* The pipeline when a dependency may throw: Redis while processEvent asks
\* for the marker, MongoDB at insertMany, the broker at eventQueue.add.
NextFaulty ==
  \/ \E p \in Slots, in \in SingleInputs :
       SingleIngest(p, in.user, in.body, {"redis"}) /\ UNCHANGED tenancy
  \/ \E p \in Slots : SingleMark(p, {})
  \/ \E p \in Procs : RunCheck(p, {})
  \/ \E p \in Procs : RunMark(p, {})
  \/ \E p \in Procs : RunInsert(p, {"mongo"})
  \/ SweeperTick
  \/ AddResolve({"queue"})
  \/ WorkerTake
SpecFaulty == Init /\ [][NextFaulty]_vars

\* Requests whose strings hold the separators of the code: two events of
\* tenant (a, p) whose userId and eventName differ but join with '-' to the
\* same text, and events of two tenants whose ids hold ':' (a projectId is
\* any string POST /auth/keys accepts, an orgId any string of an ApiKey).
OddInputs ==
  { [user |-> TenantA,
     body |-> [PlainA EXCEPT !.userId = <<"a", "-", "b">>,
                             !.eventName = <<"c">>]],
    [user |-> TenantA,
     body |-> [PlainA EXCEPT !.userId = <<"a">>,
                             !.eventName = <<"b", "-", "c">>]],
    [user |-> [orgId |-> <<"a", ":", "b">>, projectId |-> <<"c">>],
     body |-> PlainA],
    [user |-> [orgId |-> <<"a">>, projectId |-> <<"b", ":", "c">>],
     body |-> PlainB] }

\* The single-event pipeline fed with these requests.
NextOdd ==
  \/ \E p \in Slots, in \in OddInputs :
       SingleIngest(p, in.user, in.body, {}) /\ UNCHANGED tenancy
  \/ \E p \in Slots : SingleMark(p, {})
  \/ \E p \in Procs : RunCheck(p, {})
  \/ \E p \in Procs : RunMark(p, {})
  \/ \E p \in Procs : RunInsert(p, {})
  \/ SweeperTick
  \/ Shutdown
  \/ AddResolve({})
  \/ WorkerTake
SpecOdd == Init /\ [][NextOdd]_vars

\* ---------------------------------------------------------- analytics data
\* Model time units in a day.
DayLen == 2
\* Funnel, retention, metrics and summary calls made in one behaviour.
MaxQueries == 2

UserU == <<"u">>
UserV == <<"v">>
NameA == <<"A">>
NameB == <<"B">>

\* A stored event: what insertMany received from processEventBatch.
Doc(userId, eventName, ms, tenant) ==
  [userId |-> userId, eventName |-> eventName, timestamp |-> DateTime(ms),
   orgId |-> tenant.orgId, projectId |-> tenant.projectId]

\* Documents of tenant A: user, event name, day.
UA0 == Doc(UserU, NameA, 1, TenantA)
UB1 == Doc(UserU, NameB, DayLen + 1, TenantA)
VA0 == Doc(UserV, NameA, 1, TenantA)
VB0 == Doc(UserV, NameB, 1, TenantA)
VB1 == Doc(UserV, NameB, DayLen + 1, TenantA)
\* A document of tenant B.
OtherVA0 == Doc(UserV, NameA, 1, TenantB)

\* The collections the first query may find; one holds the same event
\* twice.
InitialStores ==
  {EmptyBag, SetToBag({VB0}), SetToBag({VB1}), SetToBag({OtherVA0}),
   SetToBag({UA0, UB1}), SetToBag({UA0, OtherVA0}),
   SetToBag({UA0, VA0, UB1}), SetToBag({UA0}) (+) SetToBag({UA0})}

\* The documents inserted between two queries.
InsertedDocs == {UA0, VB1, OtherVA0}

\* null, and an Error thrown with a message.
Null == [kind |-> "null"]
Thrown(message) == [kind |-> "error", message |-> message]

\* The documents of bag b that are in S, with their multiplicities.
Find(b, S) == [d \in BagToSet(b) \cap S |-> b[d]]

\* All the ways to list the elements of S.
RECURSIVE Perms(_)
Perms(S) ==
  IF S = {} THEN {<<>>}
  ELSE UNION {{<<x>> \o p : p \in Perms(S \ {x})} : x \in S}

\* $sort: the listings of S in ascending key; equal keys come in any order.
SortedBy(S, key) ==
  {p \in Perms(S) : \A i, j \in 1..Len(p) : i < j => key[p[i]] <= key[p[j]]}

\* Math.round(x * 100) / 100 for x = 100 * num / den, in hundredths.
Round2(num, den) == (2 * 10000 * num + den) \div (2 * den)

\* moment(t).startOf('day') and endOf('day').
StartOfDay(ms) == ms - (ms % DayLen)
EndOfDay(ms) == StartOfDay(ms) + DayLen - 1

\* { $gte: lo, $lte: hi } on the timestamp.
InRange(d, lo, hi) == lo <= d.timestamp.ms /\ d.timestamp.ms <= hi

\* --------------------------------------------------------------- the cache
\* Object.keys(params).sort(): the parameter names of the five operators in
\* lexicographic order.
KeyOrder ==
  <<"cohort", "days", "endDate", "event", "filters", "funnelId", "interval",
    "orgId", "projectId", "startDate", "userId">>

\* Date.toISOString() of an optional Date, as a template literal prints it.
IsoText(date) ==
  IF date.tag = "none" THEN <<"undefined">> ELSE <<ToString(date.ms)>>

\* generateCacheKey: `${prefix}:` then the sorted `${key}:${value}` joined
\* by '|'.
generateCacheKey(prefix, params) ==
  LET present(k) == k \in DOMAIN params
      keys == SelectSeq(KeyOrder, present)
      part(k) == <<k, ":">> \o params[k]
  IN <<prefix, ":">> \o Join([i \in 1..Len(keys) |-> part(keys[i])], "|")

\* JSON.stringify then JSON.parse of a date-valued field: a Date comes back
\* as its ISO string, anything else as it was.
JsonDate(v) == IF v.tag = "date" THEN IsoTime(v.ms) ELSE v

\* JSON.parse(JSON.stringify(result)) for the results of the five operators.
Json(r) ==
  IF r.kind \in {"funnel", "retention"}
  THEN [r EXCEPT !.dateRange = [start |-> JsonDate(@.start),
                                end |-> JsonDate(@.end)]]
  ELSE IF r.kind = "journey"
  THEN [r EXCEPT !.events = [i \in 1..Len(@) |->
                               [@[i] EXCEPT !.timestamp = JsonDate(@)]],
                 !.firstEvent = JsonDate(@),
                 !.lastEvent = JsonDate(@)]
  ELSE r

getCachedResultMiss(c, key) == Null

\* getCachedResult: cached ? JSON.parse(cached) : null
getCachedResult(c, key) == IF key \in DOMAIN c THEN c[key].value ELSE Null

\* setCachedResult: redis.setEx(key, ttl, JSON.stringify(data))
setCachedResult(c, key, data, ttl) ==
  [k \in DOMAIN c \cup {key} |->
     IF k = key THEN [value |-> Json(data), ttl |-> ttl] ELSE c[k]]

\* CACHE_TTL is not used by the five operators; QUERY_CACHE_TTL and the
\* user journey's 300 s are.
QUERY_CACHE_TTL == 1800
JourneyTtl == 300

\* ------------------------------------------------------ the five operators
\* A filters object is the sequence of its [key, value] entries, in the
\* order JSON.parse created them.
\* JSON.stringify(filters).
Stringify(filters) ==
  LET entry(i) == <<"\"", filters[i].key, "\"", ":", "\"">>
                  \o filters[i].value \o <<"\"">>
  IN <<"{">> \o Join([i \in 1..Len(filters) |-> entry(i)], ",") \o <<"}">>

\* Object.assign(matchStage, filters) and { ...matchStage, ...filters }: a
\* key of filters replaces the key of the stage.
RECURSIVE Assign(_, _)
Assign(stage, filters) ==
  IF filters = <<>> THEN stage
  ELSE LET f == Head(filters)
       IN Assign([k \in DOMAIN stage \cup {f.key} |->
                    IF k = f.key THEN f.value ELSE stage[k]], Tail(filters))

\* The equality conditions of a $match stage.
Matches(d, stage) == \A k \in DOMAIN stage : d[k] = stage[k]

\* The stage { orgId, projectId } that every query starts from.
TenantStage(orgId, projectId) ==
  [k \in {"orgId", "projectId"} |-> IF k = "orgId" THEN orgId ELSE projectId]

\* Event.getFunnelData: per user, the step events the user has in range.
getFunnelData(docs, orgId, projectId, steps, lo, hi, filters) ==
  LET stage == Assign(TenantStage(orgId, projectId), filters)
      isStep(d) == \E i \in 1..Len(steps) : steps[i] = d.eventName
      hit(d) == Matches(d, stage) /\ isStep(d) /\ InRange(d, lo, hi)
      found == BagToSet(Find(docs, {d \in BagToSet(docs) : hit(d)}))
  IN [u \in {d.userId : d \in found} |->
        {d.eventName : d \in {x \in found : x.userId = u}}]

\* calculateFunnel, the step metrics loop: rates in hundredths of a percent.
FunnelSteps(steps, funnelData) ==
  LET count(i) ==
        Cardinality({u \in DOMAIN funnelData : steps[i] \in funnelData[u]})
      previousCount(i) == IF i = 1 THEN 0 ELSE count(i - 1)
  IN [i \in 1..Len(steps) |->
        [eventName |-> steps[i],
         count |-> count(i),
         conversionRate |-> IF previousCount(i) > 0
                            THEN Round2(count(i), previousCount(i))
                            ELSE 10000,
         dropOffRate |-> IF previousCount(i) > 0
                         THEN Round2(previousCount(i) - count(i),
                                     previousCount(i))
                         ELSE 0]]

\* calculateFunnel past the cache lookup: what it returns or throws.
calculateFunnel(docs, fs, funnelId, orgId, projectId, startDate, endDate, filters) ==
  IF \/ funnelId \notin DOMAIN fs
     \/ fs[funnelId].orgId # orgId
     \/ fs[funnelId].projectId # projectId
  THEN {Thrown("Funnel not found or access denied")}
  ELSE LET funnel == fs[funnelId]
           data == getFunnelData(docs, orgId, projectId, funnel.steps,
                                 startDate.ms, endDate.ms, filters)
           stepResults == FunnelSteps(funnel.steps, data)
       IN {[kind |-> "funnel", funnelId |-> funnelId,
            funnelName |-> funnel.name, steps |-> stepResults,
            totalUsers |-> IF stepResults = <<>> THEN 0
                           ELSE stepResults[1].count,
            dateRange |-> [start |-> startDate, end |-> endDate]]}

\* calculateRetention, the cohort aggregate: the users with the cohort event
\* in [start, end].
CohortUsers(docs, orgId, projectId, cohort, lo, hi) ==
  LET hit(d) == /\ Matches(d, TenantStage(orgId, projectId))
                /\ d.eventName = cohort /\ InRange(d, lo, hi)
  IN {d.userId : d \in BagToSet(Find(docs, {d \in BagToSet(docs) : hit(d)}))}

RetainedUsersOfAnyone(docs, orgId, projectId, cohortIds, lo, hi) ==
  LET hit(d) == /\ Matches(d, TenantStage(orgId, projectId))
                /\ InRange(d, lo, hi)
  IN {d.userId : d \in BagToSet(Find(docs, {d \in BagToSet(docs) : hit(d)}))}

\* calculateRetention, the per-day aggregate: the cohort users with any
\* event on the day.
RetainedUsers(docs, orgId, projectId, cohortIds, lo, hi) ==
  LET hit(d) == /\ Matches(d, TenantStage(orgId, projectId))
                /\ d.userId \in cohortIds /\ InRange(d, lo, hi)
  IN {d.userId : d \in BagToSet(Find(docs, {d \in BagToSet(docs) : hit(d)}))}

\* calculateRetention past the cache lookup; query.startDate and
\* query.endDate may be undefined.
calculateRetention(docs, query) ==
  LET end == IF query.endDate.tag = "none" THEN DateTime(Now)
             ELSE query.endDate
      start == IF query.startDate.tag = "none"
               THEN DateTime(end.ms - 2 * query.days * DayLen)
               ELSE query.startDate
      cohortUsers == CohortUsers(docs, query.orgId, query.projectId,
                                 query.cohort, start.ms, end.ms)
      cohortSize == Cardinality(cohortUsers)
      retained(day) ==
        Cardinality(RetainedUsers(docs, query.orgId, query.projectId,
                                  cohortUsers,
                                  StartOfDay(start.ms + day * DayLen),
                                  EndOfDay(start.ms + day * DayLen)))
  IN {[kind |-> "retention", cohort |-> query.cohort,
       cohortSize |-> cohortSize,
       retentionData |->
         [day \in 1..query.days |->
            [day |-> day, retainedUsers |-> retained(day),
             retentionRate |-> IF cohortSize > 0
                               THEN Round2(retained(day), cohortSize)
                               ELSE 0]],
       dateRange |-> [start |-> start, end |-> end]]}

\* The $group _id of calculateMetrics: the day for 'daily'; the model's
\* horizon lies within one month.
Bucket(d, interval) ==
  IF interval = "daily" THEN d.timestamp.ms \div DayLen ELSE 0

\* calculateMetrics past the cache lookup.  The order of data is left open:
\* $sort is on a timestamp that $dateFromParts computes after the $group
\* stage, which the model does not evaluate.
calculateMetrics(docs, query) ==
  LET start == IF query.startDate.tag = "none"
               THEN DateTime(Now - 30 * DayLen) ELSE query.startDate
      end == IF query.endDate.tag = "none" THEN DateTime(Now)
             ELSE query.endDate
      base == [k \in {"orgId", "projectId", "eventName"} |->
                 IF k = "orgId" THEN query.orgId
                 ELSE IF k = "projectId" THEN query.projectId
                 ELSE query.event]
      matchStage == Assign(base, query.filters)
      hit(d) == Matches(d, matchStage) /\ InRange(d, start.ms, end.ms)
      found == Find(docs, {d \in BagToSet(docs) : hit(d)})
      buckets == {Bucket(d, query.interval) : d \in BagToSet(found)}
      inBucket(b) ==
        Find(found, {d \in BagToSet(found) : Bucket(d, query.interval) = b})
      item(b) == [count |-> BagCardinality(inBucket(b)),
                  uniqueUsers |->
                    Cardinality({d.userId : d \in BagToSet(inBucket(b))})]
  IN IF query.interval \notin {"hourly", "daily", "weekly", "monthly"}
     THEN {Thrown("Invalid interval")}
     ELSE {[kind |-> "metrics", event |-> query.event,
            interval |-> query.interval,
            data |-> [i \in 1..Len(p) |-> item(p[i])],
            totalCount |-> BagCardinality(found),
            totalUniqueUsers |->
              Cardinality({d.userId : d \in BagToSet(found)})]
           : p \in Perms(buckets)}

\* Event.getUserJourney: find(...).sort({ timestamp: 1 }); the date filter
\* applies only when both bounds are given.
EventGetUserJourney(docs, userId, orgId, projectId, startDate, endDate) ==
  LET ranged == startDate.tag # "none" /\ endDate.tag # "none"
      hit(d) == /\ Matches(d, TenantStage(orgId, projectId))
                /\ d.userId = userId
                /\ ranged => InRange(d, startDate.ms, endDate.ms)
      found == Find(docs, {d \in BagToSet(docs) : hit(d)})
      copies == {c \in BagToSet(found) \X (1..BagCardinality(found)) :
                   c[2] <= found[c[1]]}
      listings == SortedBy(copies, [c \in copies |-> c[1].timestamp.ms])
  IN {[i \in 1..Len(p) |-> p[i][1]] : p \in listings}

\* getUserJourney past the cache lookup.
getUserJourney(docs, userId, orgId, projectId, startDate, endDate) ==
  {IF events = <<>> THEN Thrown("No events found for user")
   ELSE [kind |-> "journey", userId |-> userId,
         events |-> [i \in 1..Len(events) |->
                       [eventName |-> events[i].eventName,
                        timestamp |-> events[i].timestamp]],
         totalEvents |-> Len(events),
         firstEvent |-> events[1].timestamp,
         lastEvent |-> events[Len(events)].timestamp]
   : events \in EventGetUserJourney(docs, userId, orgId, projectId,
                                    startDate, endDate)}

\* getEventSummary past the cache lookup: one entry per event name, sorted
\* by count, largest first.
getEventSummary(docs, orgId, projectId, startDate, endDate) ==
  LET hit(d) == /\ Matches(d, TenantStage(orgId, projectId))
                /\ InRange(d, startDate.ms, endDate.ms)
      found == Find(docs, {d \in BagToSet(docs) : hit(d)})
      named(n) == Find(found, {d \in BagToSet(found) : d.eventName = n})
      item(n) == [eventName |-> n, count |-> BagCardinality(named(n)),
                  uniqueUsers |->
                    Cardinality({d.userId : d \in BagToSet(named(n))})]
      names == {d.eventName : d \in BagToSet(found)}
  IN {[kind |-> "summary", totalEvents |-> BagCardinality(found),
       totalUniqueUsers |-> Cardinality({d.userId : d \in BagToSet(found)}),
       events |-> [i \in 1..Len(p) |-> item(p[i])]]
      : p \in SortedBy(names, [n \in names |-> 0 - BagCardinality(named(n))])}

\* ------------------------------------------------------ analytics requests
\* The API key of the analytics requests of the model.
Caller == TenantA

FullRange == [startDate |-> DateTime(0), endDate |-> DateTime(2 * DayLen - 1)]
DayZero == [startDate |-> DateTime(0), endDate |-> DateTime(DayLen - 1)]
NoRange == [startDate |-> NoTimestamp, endDate |-> NoTimestamp]

FunnelInputs ==
  {[funnelId |-> "F1", range |-> FullRange],
   [funnelId |-> "F2", range |-> FullRange]}

RetentionInputs ==
  {[cohort |-> NameA, days |-> 1, range |-> DayZero],
   [cohort |-> NameA, days |-> 2, range |-> DayZero],
   [cohort |-> NameB, days |-> 1, range |-> NoRange]}

\* filters as the client sends them: none, a userId, another tenant's ids.
MetricsInputs ==
  {[event |-> NameA, interval |-> "daily", range |-> NoRange,
    filters |-> <<>>],
   [event |-> NameA, interval |-> "monthly", range |-> FullRange,
    filters |-> <<[key |-> "userId", value |-> UserV]>>],
   [event |-> NameA, interval |-> "daily", range |-> NoRange,
    filters |-> <<[key |-> "orgId", value |-> OrgB],
                  [key |-> "projectId", value |-> ProjP]>>]}

\* The user journeys asked for: no bound, both bounds, startDate alone.
JourneyInputs ==
  {[userId |-> UserU, range |-> NoRange], [userId |-> UserV, range |-> DayZero],
   [userId |-> UserV,
    range |-> [startDate |-> DateTime(DayLen), endDate |-> NoTimestamp]]}

SummaryInputs == {FullRange}

\* The call that is remembered: the operator, its arguments, what it
\* returned or threw, whether the cache answered, and whether the store,
\* the funnels and the cache were left alone since the call before.
Remember(op, params, result, hit) ==
  LET call == [op |-> op, params |-> params, result |-> result, hit |-> hit,
               quiet |-> quiet]
  IN calls' = IF Len(calls) < 2 THEN Append(calls, call)
              ELSE <<calls[2], call>>

\* What the five operators share: look the key up, return the cached value
\* when there is one, otherwise compute, store and return.
Serve(op, params, key, outcomes, ttl) ==
  LET cached == getCachedResult(cache, key)
  IN /\ nq < MaxQueries
     /\ nq' = nq + 1
     /\ quiet' = TRUE
     /\ IF cached # Null
        THEN /\ Remember(op, params, cached, TRUE)
             /\ UNCHANGED cache
        ELSE \E r \in outcomes :
               /\ Remember(op, params, r, FALSE)
               /\ cache' = IF r.kind = "error" THEN cache
                           ELSE setCachedResult(cache, key, r, ttl)
     /\ UNCHANGED <<store, funnels>>
     /\ UNCHANGED pipeline
     /\ UNCHANGED <<tenancy, server>>

\* GET /funnels/:funnelId/analytics
FunnelAnalytics(user, in) ==
  LET params == [funnelId |-> in.funnelId, orgId |-> user.orgId,
                 projectId |-> user.projectId,
                 startDate |-> in.range.startDate,
                 endDate |-> in.range.endDate]
      key == generateCacheKey("funnel",
               [k \in {"funnelId", "orgId", "projectId", "startDate",
                       "endDate", "filters"} |->
                  CASE k = "funnelId" -> <<in.funnelId>>
                    [] k = "orgId" -> user.orgId
                    [] k = "projectId" -> user.projectId
                    [] k = "startDate" -> IsoText(in.range.startDate)
                    [] k = "endDate" -> IsoText(in.range.endDate)
                    [] k = "filters" -> Stringify(<<>>)])
      funnel == funnels[in.funnelId]
  IN IF funnel.orgId # user.orgId \/ funnel.projectId # user.projectId
     THEN /\ nq < MaxQueries
          /\ nq' = nq + 1
          /\ quiet' = TRUE
          /\ Remember("funnel", params, Thrown("Funnel not found"), FALSE)
          /\ UNCHANGED <<store, funnels, cache>>
          /\ UNCHANGED pipeline
          /\ UNCHANGED <<tenancy, server>>
     ELSE Serve("funnel", params, key,
                calculateFunnel(store, funnels, in.funnelId, user.orgId,
                                user.projectId, in.range.startDate,
                                in.range.endDate, <<>>),
                QUERY_CACHE_TTL)

\* GET /retention
Retention(user, in) ==
  LET query == [cohort |-> in.cohort, days |-> in.days,
                orgId |-> user.orgId, projectId |-> user.projectId,
                startDate |-> in.range.startDate,
                endDate |-> in.range.endDate]
      key == generateCacheKey("retention",
               [k \in {"cohort", "days", "orgId", "projectId", "startDate",
                       "endDate"} |->
                  CASE k = "cohort" -> in.cohort
                    [] k = "days" -> <<ToString(in.days)>>
                    [] k = "orgId" -> user.orgId
                    [] k = "projectId" -> user.projectId
                    [] k = "startDate" -> IsoText(in.range.startDate)
                    [] k = "endDate" -> IsoText(in.range.endDate)])
  IN Serve("retention", query, key, calculateRetention(store, query),
           QUERY_CACHE_TTL)

\* GET /metrics
Metrics(user, in) ==
  LET query == [event |-> in.event, interval |-> in.interval,
                orgId |-> user.orgId, projectId |-> user.projectId,
                startDate |-> in.range.startDate,
                endDate |-> in.range.endDate, filters |-> in.filters]
      key == generateCacheKey("metrics",
               [k \in {"event", "interval", "orgId", "projectId",
                       "startDate", "endDate", "filters"} |->
                  CASE k = "event" -> in.event
                    [] k = "interval" -> <<in.interval>>
                    [] k = "orgId" -> user.orgId
                    [] k = "projectId" -> user.projectId
                    [] k = "startDate" -> IsoText(in.range.startDate)
                    [] k = "endDate" -> IsoText(in.range.endDate)
                    [] k = "filters" -> Stringify(in.filters)])
  IN Serve("metrics", query, key, calculateMetrics(store, query),
           QUERY_CACHE_TTL)

\* GET /users/:userId/journey
Journey(user, in) ==
  LET params == [userId |-> in.userId, orgId |-> user.orgId,
                 projectId |-> user.projectId,
                 startDate |-> in.range.startDate,
                 endDate |-> in.range.endDate]
      key == generateCacheKey("user_journey",
               [k \in {"userId", "orgId", "projectId", "startDate",
                       "endDate"} |->
                  CASE k = "userId" -> in.userId
                    [] k = "orgId" -> user.orgId
                    [] k = "projectId" -> user.projectId
                    [] k = "startDate" -> IsoText(in.range.startDate)
                    [] k = "endDate" -> IsoText(in.range.endDate)])
  IN Serve("journey", params, key,
           getUserJourney(store, in.userId, user.orgId, user.projectId,
                          in.range.startDate, in.range.endDate),
           JourneyTtl)

\* GET /events/summary
Summary(user, range) ==
  LET params == [orgId |-> user.orgId, projectId |-> user.projectId,
                 startDate |-> range.startDate, endDate |-> range.endDate]
      key == generateCacheKey("event_summary",
               [k \in {"orgId", "projectId", "startDate", "endDate"} |->
                  CASE k = "orgId" -> user.orgId
                    [] k = "projectId" -> user.projectId
                    [] k = "startDate" -> IsoText(range.startDate)
                    [] k = "endDate" -> IsoText(range.endDate)])
  IN Serve("summary", params, key,
           getEventSummary(store, user.orgId, user.projectId,
                           range.startDate, range.endDate),
           QUERY_CACHE_TTL)

\* Between two calls the model lets one thing happen to the store, the
\* funnels or the cache.
Between == nq > 0 /\ nq < MaxQueries /\ quiet

\* Event.insertMany between two queries: one more document.
InsertEvent(d) ==
  /\ Between
  /\ store' = store (+) SetToBag({d})
  /\ quiet' = FALSE
  /\ UNCHANGED <<funnels, cache, calls, nq>>
  /\ UNCHANGED pipeline
  /\ UNCHANGED <<tenancy, server>>

\* PUT /funnels/:funnelId with new steps: Object.assign(funnel, updates) and
\* save; the cache is not touched.
PutFunnel(steps) ==
  /\ Between
  /\ funnels["F1"].steps # steps
  /\ funnels' = [funnels EXCEPT !["F1"].steps = steps]
  /\ quiet' = FALSE
  /\ UNCHANGED <<store, cache, calls, nq>>
  /\ UNCHANGED pipeline
  /\ UNCHANGED <<tenancy, server>>

\* The TTL of a cache entry runs out.
Expire(key) ==
  /\ Between
  /\ cache' = [k \in DOMAIN cache \ {key} |-> cache[k]]
  /\ quiet' = FALSE
  /\ UNCHANGED <<store, funnels, calls, nq>>
  /\ UNCHANGED pipeline
  /\ UNCHANGED <<tenancy, server>>

\* The first query finds one of the collections of the model.
InitQuery ==
  /\ InitPipeline
  /\ InitAnalytics
  /\ InitService
  /\ store \in InitialStores

NextQuery ==
  \/ \E in \in FunnelInputs : FunnelAnalytics(Caller, in)
  \/ \E in \in RetentionInputs : Retention(Caller, in)
  \/ \E in \in MetricsInputs : Metrics(Caller, in)
  \/ \E in \in JourneyInputs : Journey(Caller, in)
  \/ \E range \in SummaryInputs : Summary(Caller, range)
  \/ \E d \in InsertedDocs : InsertEvent(d)
  \/ \E steps \in {FunnelF1.steps, <<NameB, NameA>>} : PutFunnel(steps)
  \/ \E key \in DOMAIN cache : Expire(key)

SpecQuery == InitQuery /\ [][NextQuery]_vars

\* ------------------------------------------------------- Redis unavailable
getCachedResultRethrown(redisOk, cached) ==
  IF redisOk THEN cached ELSE Thrown("redis")

\* The try / catch of getCachedResult: what redis.get answered, parsed, or
\* null when getRedisClient or redis.get threw.
getCachedResultOr(redisOk, cached) == IF redisOk THEN cached ELSE Null

\* One of the five operators called while every Redis call throws: the
\* lookup is caught and yields null whatever the key, the operator computes,
\* and setCachedResult catches the error of redis.setEx.
QueryDown(user) ==
  LET cached == getCachedResultOr(FALSE, Null)
      Down(op, params, outcomes) ==
        /\ nreq < MaxRequests
        /\ nreq' = nreq + 1
        /\ quiet' = TRUE
        /\ IF cached # Null
           THEN Remember(op, params, cached, FALSE)
           ELSE \E r \in outcomes : Remember(op, params, r, FALSE)
        /\ UNCHANGED <<store, funnels, cache, nq>>
        /\ UNCHANGED <<eventBuffer, dedup, counters, emitted, queue, adds,
                       procs, flush, resp, submitted, buffered, handed,
                       posted>>
        /\ UNCHANGED <<tenancy, server>>
      ids == [orgId |-> user.orgId, projectId |-> user.projectId]
      With(range, more) ==
        [k \in DOMAIN more \cup {"orgId", "projectId", "startDate",
                                  "endDate"} |->
           IF k \in DOMAIN more THEN more[k]
           ELSE IF k \in DOMAIN ids THEN ids[k] ELSE range[k]]
  IN \/ \E in \in FunnelInputs :
          IF \/ funnels[in.funnelId].orgId # user.orgId
             \/ funnels[in.funnelId].projectId # user.projectId
          THEN Down("funnel", With(in.range, [funnelId |-> in.funnelId]),
                    {Thrown("Funnel not found")})
          ELSE Down("funnel", With(in.range, [funnelId |-> in.funnelId]),
                    calculateFunnel(store, funnels, in.funnelId, user.orgId,
                                    user.projectId, in.range.startDate,
                                    in.range.endDate, <<>>))
     \/ \E in \in RetentionInputs :
          LET query == With(in.range, [cohort |-> in.cohort, days |-> in.days])
          IN Down("retention", query, calculateRetention(store, query))
     \/ \E in \in MetricsInputs :
          LET query == With(in.range, [event |-> in.event,
                                       interval |-> in.interval,
                                       filters |-> in.filters])
          IN Down("metrics", query, calculateMetrics(store, query))
     \/ \E in \in JourneyInputs :
          Down("journey", With(in.range, [userId |-> in.userId]),
               getUserJourney(store, in.userId, user.orgId, user.projectId,
                              in.range.startDate, in.range.endDate))
     \/ \E range \in SummaryInputs :
          Down("summary", With(range, <<>>),
               getEventSummary(store, user.orgId, user.projectId,
                               range.startDate, range.endDate))

\* Ingestion and queries while Redis calls may throw; MongoDB and the
\* broker answer.
NextDown ==
  \/ \E p \in Slots :
       SingleIngest(p, TenantA, PlainB, {"redis"}) /\ UNCHANGED tenancy
  \/ \E p \in Slots : SingleMark(p, {"redis"})
  \/ \E p \in Slots :
       BatchIngest(p, TenantA, <<PlainB, PlainA>>) /\ UNCHANGED tenancy
  \/ \E p \in Procs : RunCheck(p, {"redis"})
  \/ \E p \in Procs : RunMark(p, {"redis"})
  \/ \E p \in Procs : RunInsert(p, {"redis"})
  \/ SweeperTick
  \/ AddResolve({})
  \/ WorkerTake
  \/ QueryDown(Caller)
SpecDown == Init /\ [][NextDown]_vars

\* ------------------------------------------------------ ingestion properties
\* What identifies a record: (userId, eventName, timestampMillis, orgId,
\* projectId).
Identity(e) == <<e.userId, e.eventName, e.timestamp.ms, e.orgId, e.projectId>>

\* The number of elements of bag b with identity id.
Records(b, id) ==
  LET same == {d \in BagToSet(b) : Identity(d) = id}
      RECURSIVE Sum(_)
      Sum(S) == IF S = {} THEN 0
                ELSE LET d == CHOOSE x \in S : TRUE
                     IN CopiesIn(d, b) + Sum(S \ {d})
  IN Sum(same)

\* Nothing is buffered, waiting or running.
Quiescent ==
  /\ \A i \in 1..Len(eventBuffer) : eventBuffer[i].events = <<>>
  /\ adds = <<>> /\ queue = <<>>
  /\ \A p \in Procs : procs[p] = Idle

\* C1: an event submitted twice by one tenant has, once the buffers are
\* flushed and the jobs have run (no shutdown involved), exactly one record
\* in the Event Store.
C1_ExactlyOneRecord ==
  (Quiescent /\ flush.pc = "idle") =>
    \A e \in BagToSet(submitted) :
      CopiesIn(e, submitted) >= 2 => Records(store, Identity(e)) = 1

\* C2: once the sweeper has enqueued the buffers and the worker has run the
\* jobs (Redis and MongoDB answering, no shutdown involved), every event
\* that processEvent buffered has a record in the Event Store.
C2_BufferedEventStored ==
  (Quiescent /\ flush.pc = "idle") =>
    \A e \in BagToSet(buffered) : Records(store, Identity(e)) >= 1

\* Request r, made with an API key of (orgId, projectId), carried a body for
\* event d.
SentBy(r, d) ==
  /\ d.orgId = r.user.orgId /\ d.projectId = r.user.projectId
  /\ \E i \in 1..Len(r.bodies) :
       r.bodies[i].userId = d.userId /\ r.bodies[i].eventName = d.eventName

\* C4: every stored and every buffered event carries the orgId and projectId
\* of the API key of a request that sent it, whatever ids its body held.
C4_TenantOfApiKey ==
  \A d \in BagToSet(store) \cup DOMAIN BufferedEvents(eventBuffer) :
    \E r \in posted : SentBy(r, d)

\* C4 at work: tenant A's only request is the batch whose first body names
\* tenant B; its event is stored under tenant A.
C4_SpoofedBodyStored ==
  /\ posted = {[user |-> TenantA, bodies |-> <<SpoofA, PlainA>>]}
  /\ \E d \in BagToSet(store) : d.orgId = OrgA /\ d.projectId = ProjP
  /\ \A d \in BagToSet(store) : d.orgId # OrgB

\* C5: every addEventBatchToQueue call and every job holds at most
\* maxBatchSize events, and so does every tenant buffer.
C5_BatchBound ==
  /\ \A i \in 1..Len(adds) : Len(adds[i].events) <= maxBatchSize
  /\ \A i \in 1..Len(queue) : Len(queue[i].events) <= maxBatchSize
  /\ procs[Worker].kind = "job" => Len(procs[Worker].events) <= maxBatchSize
  /\ \A i \in 1..Len(eventBuffer) :
       Len(eventBuffer[i].events) <= maxBatchSize

\* C5 at work: the size trigger handed a full batch to the queue.
C5_FullBatchQueued ==
  \E i \in 1..Len(queue) : Len(queue[i].events) = maxBatchSize

\* C6: an event pushed to a tenant buffer is still in the buffer or has been
\* passed to addEventBatchToQueue.
C6_BufferedEventHanded ==
  \A e \in BagToSet(buffered) :
    e \in DOMAIN BufferedEvents(eventBuffer) \/ e \in BagToSet(handed)

\* C10: the answer to a batch reports processed = the events not seen before
\* and duplicates = the events that had a dedup marker.
C10_BatchCounts ==
  (resp.kind = "batch" /\ resp.status = 200) =>
    (resp.processed = resp.found /\ resp.duplicates = resp.skipped)

\* ------------------------------------------------------ analytics properties
\* The most recent analytics call, and the one before it.
LastCall == calls[Len(calls)]
PreviousCall == calls[Len(calls) - 1]

\* The documents of the tenant of an API key.
OwnEvents(docs, user) ==
  Find(docs, {d \in BagToSet(docs) :
                d.orgId = user.orgId /\ d.projectId = user.projectId})

\* What a call can return or throw when its operator reads docs.
Evaluate(call, docs) ==
  LET q == call.params
  IN CASE call.op = "funnel" ->
            IF \/ funnels[q.funnelId].orgId # q.orgId
               \/ funnels[q.funnelId].projectId # q.projectId
            THEN {Thrown("Funnel not found")}
            ELSE calculateFunnel(docs, funnels, q.funnelId, q.orgId,
                                 q.projectId, q.startDate, q.endDate, <<>>)
       [] call.op = "retention" -> calculateRetention(docs, q)
       [] call.op = "metrics" -> calculateMetrics(docs, q)
       [] call.op = "journey" ->
            getUserJourney(docs, q.userId, q.orgId, q.projectId,
                           q.startDate, q.endDate)
       [] call.op = "summary" ->
            getEventSummary(docs, q.orgId, q.projectId, q.startDate,
                            q.endDate)

\* C3: what a query computes for the authenticated tenant is what it
\* computes when the collection holds that tenant's events only, whatever
\* the parameters and the metrics filters are.
C3_TenantIsolation ==
  (calls # <<>> /\ quiet /\ ~LastCall.hit) =>
    LastCall.result \in Evaluate(LastCall, OwnEvents(store, Caller))

\* C7: the step counts of a funnel result do not increase along the funnel.
C7_FunnelMonotone ==
  (calls # <<>> /\ LastCall.result.kind = "funnel") =>
    LET steps == LastCall.result.steps
    IN \A i \in 1..(Len(steps) - 1) : steps[i].count >= steps[i + 1].count

\* C8: a retention result has one entry per day 1..days, in order, each
\* with retainedUsers <= cohortSize and a rate between 0 and 100 (in
\* hundredths: 0..10000), the rate being 0 when the cohort is empty.
C8_RetentionBounds ==
  (calls # <<>> /\ LastCall.result.kind = "retention") =>
    LET r == LastCall.result
        data == r.retentionData
    IN /\ Len(data) = LastCall.params.days
       /\ \A i \in 1..Len(data) :
            /\ data[i].day = i
            /\ data[i].retainedUsers <= r.cohortSize
            /\ 0 <= data[i].retentionRate /\ data[i].retentionRate <= 10000
            /\ r.cohortSize = 0 => data[i].retentionRate = 0

\* C8 at work: a two-day retention result with a cohort and a retained user.
C8_RetainedCohort ==
  /\ calls # <<>> /\ LastCall.result.kind = "retention"
  /\ ~LastCall.hit
  /\ LastCall.params.days = 2
  /\ LastCall.result.cohortSize >= 1
  /\ \E i \in 1..2 : LastCall.result.retentionData[i].retainedUsers >= 1

\* The last two calls are the same operator with the same arguments, and
\* nothing was written and no entry expired between them.
Repeated ==
  /\ Len(calls) = 2
  /\ PreviousCall.op = LastCall.op /\ PreviousCall.params = LastCall.params
  /\ LastCall.quiet

\* C9: a call repeated within the TTL with no write in between is answered
\* from the cache entry of the first call, and the two results are the same
\* response (identical once serialised); a call that threw throws again.
C9_RepeatedCallSameResult ==
  Repeated =>
    IF PreviousCall.result.kind = "error"
    THEN LastCall.result = PreviousCall.result
    ELSE LastCall.hit /\ Json(LastCall.result) = Json(PreviousCall.result)

\* C9 at work: a funnel computed by the first call, served from the cache
\* by the second.
C9_SecondCallFromCache ==
  /\ Repeated
  /\ PreviousCall.result.kind = "funnel" /\ ~PreviousCall.hit
  /\ LastCall.hit

\* ------------------------------------------------- POST /events properties
\* The last request was answered by the body validator with 400.
Invalid400 == reply.route = "events" /\ reply.status = 400

\* C11: a batch within the size bound that holds valid and invalid events
\* is not refused as a whole: the validator never answers it with 400.
C11_MixedBatchNotRefused ==
  LET bodies == reply.request
  IN Invalid400 =>
       ~ /\ Len(bodies) >= 1 /\ Len(bodies) <= BatchLimit
         /\ \E i \in 1..Len(bodies) : eventSchema(bodies[i])
         /\ \E i \in 1..Len(bodies) : ~eventSchema(bodies[i])

\* A request is refused: it is counted and hands nothing to the pipeline.
RefusedStep == nreq' # nreq /\ submitted' = submitted

\* C12: an array of valid events reaches the handler only with 1 to
\* BatchLimit events, is refused with 400 only when it is empty or longer,
\* and a request refused with 400 marks, buffers, queues and stores nothing.
C12_BatchSizeGate ==
  /\ [](\A r \in posted :
          Len(r.bodies) >= 1 /\ Len(r.bodies) <= BatchLimit)
  /\ []((Invalid400 /\ \A i \in 1..Len(reply.request) :
                          eventSchema(reply.request[i]))
          => (reply.request = <<>> \/ Len(reply.request) > BatchLimit))
  /\ [][(RefusedStep /\ reply'.status = 400)
          => UNCHANGED <<dedup, eventBuffer, adds, queue, store, buffered,
                         procs>>]_vars

\* An array one longer than the bound was refused and one as long as the
\* bound was processed.
C12_LongestBatchAccepted ==
  /\ Invalid400 /\ Len(reply.request) = BatchLimit + 1
  /\ resp.kind = "batch" /\ resp.status = 200
  /\ \E r \in posted : Len(r.bodies) = BatchLimit

\* C18: a request refused by the ingestion limiter is answered 429 with a
\* body that has a retryAfter member.
C18_RetryAfterInBody ==
  (reply.route = "events" /\ reply.status = 429)
    => "retryAfter" \in reply.fields

\* ------------------------------------------------------ /auth properties
\* The ApiKeys whose key is the string and which are active.
ActiveHolders(keys, header) ==
  {id \in DOMAIN keys : keys[id].key = header /\ keys[id].isActive}

C14_AdminOnly ==
  [][(nreq' # nreq /\ reply'.route = "keys") =>
       \A id \in ActiveHolders(apiKeys, reply'.key) :
         IF "admin" \in apiKeys[id].permissions
         THEN reply'.status \notin {401, 403}
         ELSE /\ reply'.status = 403
              /\ DOMAIN apiKeys' = DOMAIN apiKeys
              /\ \A k \in DOMAIN apiKeys :
                   /\ [apiKeys'[k] EXCEPT !.lastUsed = 0]
                        = [apiKeys[k] EXCEPT !.lastUsed = 0]
                   /\ k # id => apiKeys'[k] = apiKeys[k]]_vars

\* A key without admin asked to delete a key and was answered 403.
C14_WriteKeyForbidden ==
  /\ reply.route = "keys" /\ reply.status = 403
  /\ reply.request[1] = "DELETE" /\ reply.key = <<"k1">>

\* C15: PUT /auth/keys/:keyId leaves the key string, the orgId and the
\* projectId of every stored ApiKey as they were.
C15_PutKeepsIdentity ==
  [][(nreq' # nreq /\ reply'.route = "keys" /\ reply'.request[1] = "PUT") =>
       \A id \in DOMAIN apiKeys :
         /\ id \in DOMAIN apiKeys'
         /\ apiKeys'[id].key = apiKeys[id].key
         /\ apiKeys'[id].orgId = apiKeys[id].orgId
         /\ apiKeys'[id].projectId = apiKeys[id].projectId]_vars

\* ---------------------------------------------------- /funnels properties
\* C16: no two stored funnels of one (orgId, projectId) have the same name.
C16_UniqueNamePerTenant ==
  \A f, g \in DOMAIN funnels :
    (/\ f # g
     /\ funnels[f].orgId = funnels[g].orgId
     /\ funnels[f].projectId = funnels[g].projectId)
      => funnels[f].name # funnels[g].name

\* C17: every stored funnel has between 2 and StepsMax steps with pairwise
\* distinct eventNames, and a step that changes the stored funnels is the
\* save of a request that is answered 200 or 201.
C17_StepsWellFormed ==
  /\ [](\A f \in DOMAIN funnels :
          LET steps == funnels[f].steps
          IN /\ Len(steps) >= 2 /\ Len(steps) <= StepsMax
             /\ \A i, j \in 1..Len(steps) : i # j => steps[i] # steps[j])
  /\ [][funnels' # funnels => reply'.status \in {200, 201}]_vars

\* A save was refused with 500 (repeated steps), and a funnel with the most
\* steps allowed is stored.
C17_LongestFunnelStored ==
  /\ reply.route = "funnels" /\ reply.status = 500
  /\ \E f \in DOMAIN funnels : Len(funnels[f].steps) = StepsMax

\* ------------------------------------------- notifications and shutdown
\* C19: every new_event notification is of an event that is persisted, at
\* most one per persisted record.
C19_EmittedAfterPersisted ==
  \A e \in BagToSet(emitted) :
    Records(emitted, Identity(e)) <= Records(store, Identity(e))

\* C20: when the process has exited, no tenant buffer holds an event and no
\* hand-over to the queue is still unanswered.
C20_ExitAfterHandOver ==
  exited => /\ \A i \in 1..Len(eventBuffer) : eventBuffer[i].events = <<>>
            /\ adds = <<>>

\* ------------------------------------------------------- jobs and buffers
\* The worker's attempt ends and the job completes: processEventBatch
\* returned without throwing.
JobDone ==
  /\ procs[Worker].kind = "job" /\ procs'[Worker] = Idle
  /\ ~(procs[Worker].pc = "insert" /\ store' = store)

\* C21: when a job that was retried after a failed attempt completes, every
\* valid event of the job has a record in the Event Store.
C21_CompletedJobPersisted ==
  [][(JobDone /\ procs[Worker].attempts >= 1) =>
       \A i \in 1..Len(procs[Worker].events) :
         LET raw == procs[Worker].events[i]
         IN ValidEvent(raw) =>
              Records(store', Identity(validateEvent(raw))) >= 1]_vars

\* C22: every event pushed to a tenant buffer is passed to
\* addEventBatchToQueue at most once, and is either still in a buffer or
\* was passed to it.
C22_HandedExactlyOnce ==
  \A e \in BagToSet(buffered) \cup BagToSet(handed) :
    /\ CopiesIn(e, handed) <= CopiesIn(e, buffered)
    /\ CopiesIn(e, buffered)
         <= CopiesIn(e, handed) + CopiesIn(e, BufferedEvents(eventBuffer))

\* ---------------------------------------------------------- cache counters
\* The stored events of a tenant, and those of them with a given name.
StoredOf(docs, t) ==
  Find(docs, {d \in BagToSet(docs) :
                d.orgId = t.orgId /\ d.projectId = t.projectId})
StoredNamed(docs, t, n) ==
  Find(docs, {d \in BagToSet(StoredOf(docs, t)) : d.eventName = n})

\* The per-eventName counters of a tenant added up over the names in S.
RECURSIVE TypeTotal(_, _, _)
TypeTotal(c, t, S) ==
  IF S = {} THEN 0
  ELSE LET n == CHOOSE x \in S : TRUE
       IN CopiesIn(TypeCounterKey(t.orgId, t.projectId, n), c)
          + TypeTotal(c, t, S \ {n})

\* C23: with Redis answering, each tenant's total counter equals the sum of
\* its per-eventName counters and the number of its stored events, each
\* per-eventName counter equals the number of stored events of that name,
\* and a step that persists k events adds exactly k to the total.
C23_CountersMatchStore ==
  /\ [](\A t \in Tenants :
          LET total == CopiesIn(CounterKey(t.orgId, t.projectId), counters)
              names == {d.eventName : d \in BagToSet(store)}
          IN /\ total = BagCardinality(StoredOf(store, t))
             /\ total = TypeTotal(counters, t, names)
             /\ \A n \in names :
                  CopiesIn(TypeCounterKey(t.orgId, t.projectId, n), counters)
                    = BagCardinality(StoredNamed(store, t, n)))
  /\ [][\A t \in Tenants :
          CopiesIn(CounterKey(t.orgId, t.projectId), counters')
            - CopiesIn(CounterKey(t.orgId, t.projectId), counters)
          = BagCardinality(StoredOf(store', t))
            - BagCardinality(StoredOf(store, t))]_vars

\* One batch persisted two events of different names for tenant a, and the
\* tenant's total counter is 2.
C23_TwoNamesCounted ==
  /\ BagCardinality(StoredOf(store, TenantA)) = 2
  /\ Cardinality({d.eventName : d \in BagToSet(StoredOf(store, TenantA))}) = 2
  /\ CopiesIn(CounterKey(OrgA, ProjP), counters) = 2

C25_JourneyInRange ==
  (calls # <<>> /\ quiet /\ LastCall.op = "journey" /\ ~LastCall.hit) =>
    LET q == LastCall.params
        r == LastCall.result
        fits(d) ==
          /\ d.userId = q.userId
          /\ d.orgId = q.orgId /\ d.projectId = q.projectId
          /\ q.startDate.tag # "none" => d.timestamp.ms >= q.startDate.ms
          /\ q.endDate.tag # "none" => d.timestamp.ms <= q.endDate.ms
        qualifying == {d \in BagToSet(store) : fits(d)}
    IN IF qualifying = {}
       THEN r = Thrown("No events found for user")
       ELSE /\ r.kind = "journey"
            /\ \A i \in 1..Len(r.events) :
                 \E d \in qualifying :
                   /\ d.eventName = r.events[i].eventName
                   /\ d.timestamp = r.events[i].timestamp
            /\ \A i, j \in 1..Len(r.events) :
                 i < j => r.events[i].timestamp.ms <= r.events[j].timestamp.ms

\* ------------------------------------------------------ funnel time windows
\* C26: in a funnel result computed from the store, the count of a step
\* i > 1 whose timeWindow is not 0 is at most the number of users with an
\* in-range event of step i, leaving out those whose earliest such event
\* does not lie within timeWindow after their earliest in-range event of
\* step i - 1 (users with no event of step i - 1 are not judged here).
C26_StepWithinWindow ==
  (/\ calls # <<>> /\ quiet /\ ~LastCall.hit
   /\ LastCall.result.kind = "funnel") =>
    LET q == LastCall.params
        funnel == funnels[q.funnelId]
        own == {d \in BagToSet(store) :
                  /\ d.orgId = q.orgId /\ d.projectId = q.projectId
                  /\ InRange(d, q.startDate.ms, q.endDate.ms)}
        of(u, n) == {d.timestamp.ms : d \in {x \in own : x.userId = u
                                                         /\ x.eventName = n}}
        first(u, n) == CHOOSE t \in of(u, n) : \A o \in of(u, n) : t <= o
        within(u, i) ==
          /\ of(u, funnel.steps[i]) # {}
          /\ of(u, funnel.steps[i - 1]) # {} =>
               /\ first(u, funnel.steps[i]) >= first(u, funnel.steps[i - 1])
               /\ first(u, funnel.steps[i]) - first(u, funnel.steps[i - 1])
                    <= funnel.timeWindow[i]
    IN \A i \in 2..Len(funnel.steps) :
         funnel.timeWindow[i] # 0 =>
           LastCall.result.steps[i].count
             <= Cardinality({u \in {d.userId : d \in own} : within(u, i)})

\* ------------------------------------------------------- funnel ownership
\* C27: no request changes the orgId or the projectId of a stored funnel.
C27_PutKeepsTenant ==
  [][\A f \in DOMAIN funnels :
       /\ f \in DOMAIN funnels'
       /\ funnels'[f].orgId = funnels[f].orgId
       /\ funnels'[f].projectId = funnels[f].projectId]_vars

\* ------------------------------------------------- fingerprints and keys
\* C28: two events handed to the pipeline have the same fingerprint only
\* if they agree on userId, eventName, timestamp, orgId and projectId.
C28_FingerprintInjective ==
  \A e, f \in BagToSet(submitted) :
    generateEventId(e) = generateEventId(f) => Identity(e) = Identity(f)

\* C29: the events of a tenant buffer are all of one tenant, and the orgId
\* and projectId of every addEventBatchToQueue call and of every job are
\* those of each of its events.
C29_JobTenantIsEventTenant ==
  /\ \A i \in 1..Len(eventBuffer) :
       \A j, k \in 1..Len(eventBuffer[i].events) :
         /\ eventBuffer[i].events[j].orgId = eventBuffer[i].events[k].orgId
         /\ eventBuffer[i].events[j].projectId
              = eventBuffer[i].events[k].projectId
  /\ \A i \in 1..Len(adds) : \A j \in 1..Len(adds[i].events) :
       /\ adds[i].events[j].orgId = adds[i].orgId
       /\ adds[i].events[j].projectId = adds[i].projectId
  /\ \A i \in 1..Len(queue) : \A j \in 1..Len(queue[i].events) :
       /\ queue[i].events[j].orgId = queue[i].orgId
       /\ queue[i].events[j].projectId = queue[i].projectId

\* ------------------------------------------------- failed hand-over
\* An addEventBatchToQueue call of the size trigger or of the sweeper has
\* just thrown: it left the pending calls and no job was added.
AddFailed ==
  /\ adds # <<>>
  /\ Head(adds).owner # "flush"
  /\ adds' = Tail(adds)
  /\ queue' = queue

\* C30: when addEventBatchToQueue throws for a buffer detached by the size
\* trigger or by the sweeper, every event of the call is afterwards in a
\* tenant buffer or in a call that is still to be enqueued.
C30_FailedAddKeepsEvents ==
  [][AddFailed =>
       \A j \in 1..Len(Head(adds).events) :
         LET e == Head(adds).events[j]
         IN \/ \E i \in 1..Len(eventBuffer') :
                 \E k \in 1..Len(eventBuffer'[i].events) :
                   Identity(eventBuffer'[i].events[k]) = Identity(e)
            \/ \E i \in 1..Len(adds') :
                 \E k \in 1..Len(adds'[i].events) :
                   Identity(adds'[i].events[k]) = Identity(e)]_vars

====
